---- MODULE Spec2Model ----
(***************************************************************************)
(* A model of django-msgspec-field: the type-container model               *)
(* (compat/django.py), the migration serializers, the schema adapter       *)
(* (types.py) and the model field (fields.py).                             *)
(*                                                                         *)
(* Python values are records [k, o, a]: k is the runtime kind, o a name    *)
(* (class name, origin name, literal text) and a the ordered arguments.    *)
(*   class    a plain class (int, list, NoneType, InnerSchema, ...)        *)
(*   special  a typing special form (typing.Union, typing.Literal)        *)
(*   fwd      typing.ForwardRef(o)                                         *)
(*   str      a Python string                                              *)
(*   none     the value None                                               *)
(*   meta     a metadata object carried by Annotated (msgspec.Meta)        *)
(*   ga       types.GenericAlias        list[int], dict[str, int]          *)
(*   tga      typing._GenericAlias      typing.List[int]                   *)
(*   sga      typing._SpecialGenericAlias   typing.List                    *)
(*   tunion   typing._UnionGenericAlias typing.Union[int, str]             *)
(*   union    types.UnionType           int | str                          *)
(*   literal  typing.Literal["foo"]                                        *)
(*   ann      typing.Annotated[int, m]  (a = <<base, metadata...>>)        *)
(*   gc       GenericContainer(origin, args)                               *)
(*   tuple    a Python tuple                                               *)
(*   err      a raised exception (o = its class)                           *)
(* The interpreter modelled is CPython 3.10 to 3.13, the branch of         *)
(* compat/django.py lines 193-200.                                         *)
(***************************************************************************)
EXTENDS Integers, Sequences, FiniteSets, TLC

VARIABLES
    raw_type,       \* the type expression under test
    wrapped_type,   \* GenericContainer.wrap(raw_type), or Unset
    unwrapped_type, \* GenericContainer.unwrap(wrapped_type), or Unset
    serialized,     \* MigrationWriter.serialize(wrapped_type): text and imports
    evaluated,      \* eval(serialized text), or Unset
    adapter,        \* the SchemaAdapter instance
    module_globals, \* the globals of the module defining the owner classes
    declared_since_bind, \* whether the module declared a name after the last bind
    outcome,        \* the last operation: arguments, result, conversions
    model_field,    \* the model field under test
    reconstructed_field, \* the field built from what field.deconstruct() returned
    model_instance, \* a model instance's __dict__ entry for the field, or Unset
    django_settings, \* the host configuration: django.conf.settings
    msgspec_field_settings \* the MsgspecFieldSettings object of conf.py

RECURSIVE wrap(_)
RECURSIVE DataclassContainer_unwrap(_)
RECURSIVE unwrap(_)
RECURSIVE PyEq(_, _)
RECURSIVE DedupInto(_, _)
RECURSIVE FlattenUnion(_)
RECURSIVE FoldOr(_, _)

Mk(k, o, a) == [k |-> k, o |-> o, a |-> a]

Cls(n) == Mk("class", n, <<>>)

Special(n) == Mk("special", n, <<>>)

Fwd(n) == Mk("fwd", n, <<>>)

Str(s) == Mk("str", s, <<>>)

Err(e) == Mk("err", e, <<>>)

NoneValue == Mk("none", "None", <<>>)

Unset == Mk("unset", "", <<>>)

MapSeq(Op(_), s) == [i \in 1..Len(s) |-> Op(s[i])]

\* ------------------------------------------------------------------------
\* Python's typing runtime, as far as wrap and unwrap use it
\* ------------------------------------------------------------------------

\* The typing special forms that can be an origin; every other origin is a class.
SpecialForms == {"Union", "Literal"}

\* The object an origin name stands for.
OriginValue(o) == IF o \in SpecialForms THEN Special(o) ELSE Cls(o)

\* tuple == tuple, element by element with ==.
SeqEq(s, t) == Len(s) = Len(t) /\ \A i \in 1..Len(s) : PyEq(s[i], t[i])

\* set(s) == set(t), membership by ==.
SetEq(s, t) ==
    /\ \A i \in 1..Len(s) : \E j \in 1..Len(t) : PyEq(s[i], t[j])
    /\ \A j \in 1..Len(t) : \E i \in 1..Len(s) : PyEq(s[i], t[j])

\* isinstance(value, GenericTypes)
IsGenericType(v) == v.k \in {"ga", "tga", "sga", "tunion", "union", "literal", "ann"}

\* isinstance(value, AnnotatedAlias)
IsAnnotatedAlias(v) == v.k = "ann"

\* typing.get_origin
get_origin(v) == IF IsGenericType(v) THEN v.o ELSE "None"

\* typing.get_args: a bare typing.List has none.
get_args(v) ==
    IF v.k \in {"ga", "tga", "tunion", "union", "literal", "ann"} THEN v.a ELSE <<>>

\* BaseContainer.__eq__ on two containers of the same class: slot by slot.
ContainerSlotsEq(c, d) == c.o = d.o /\ SeqEq(c.a, d.a)

\* GenericContainer.__eq__(self, other)
GenericContainerEq(c, y) ==
    IF IsGenericType(y) THEN
        LET w == wrap(y) IN w.k = "gc" /\ ContainerSlotsEq(c, w)
    ELSE IF y.k = "gc" THEN ContainerSlotsEq(c, y)
    ELSE FALSE

\* Python's x == y on the values of the model; a container on either side
\* answers (the raw type's own __eq__ returns NotImplemented for it).
PyEq(x, y) ==
    IF x.k = "gc" THEN GenericContainerEq(x, y)
    ELSE IF y.k = "gc" THEN GenericContainerEq(y, x)
    ELSE IF x.k \in {"tunion", "union"} /\ y.k \in {"tunion", "union"}
        THEN SetEq(x.a, y.a)
    ELSE IF x.k = "literal" /\ y.k = "literal" THEN SetEq(x.a, y.a)
    ELSE IF x.k = y.k /\ x.k \in {"ga", "tga", "ann", "tuple"}
        THEN x.o = y.o /\ SeqEq(x.a, y.a)
    ELSE x = y

\* The elements of s without repetitions (by ==), first occurrences kept.
DedupInto(acc, s) ==
    IF s = <<>> THEN acc
    ELSE IF \E i \in 1..Len(acc) : PyEq(acc[i], s[1]) THEN DedupInto(acc, Tail(s))
    ELSE DedupInto(Append(acc, s[1]), Tail(s))

Dedup(s) == DedupInto(<<>>, s)

\* The members of a union of unions.
FlattenUnion(s) ==
    IF s = <<>> THEN <<>>
    ELSE IF s[1].k \in {"tunion", "union"} THEN s[1].a \o FlattenUnion(Tail(s))
    ELSE <<s[1]>> \o FlattenUnion(Tail(s))

\* What typing accepts as a type argument (_type_convert, _type_check): None
\* becomes NoneType, a string a ForwardRef, a plain special form is refused.
TypeConvert(v) ==
    IF v.k = "none" THEN Cls("NoneType")
    ELSE IF v.k = "str" THEN Fwd(v.o)
    ELSE IF v.k \in {"special", "tuple"} THEN Err("TypeError")
    ELSE v

\* typing.Union[args]
SubscriptUnion(args) ==
    LET conv == MapSeq(TypeConvert, args)
        flat == Dedup(FlattenUnion(conv))
    IN  IF args = <<>> \/ \E i \in 1..Len(conv) : conv[i].k = "err" THEN Err("TypeError")
        ELSE IF Len(flat) = 1 THEN flat[1]
        ELSE Mk("tunion", "Union", flat)

\* typing.Literal[args]
SubscriptLiteral(args) ==
    LET flat == [i \in 1..Len(args) |-> IF args[i].k = "literal" THEN args[i].a ELSE <<args[i]>>]
        RECURSIVE Cat(_)
        Cat(s) == IF s = <<>> THEN <<>> ELSE s[1] \o Cat(Tail(s))
    IN  Mk("literal", "Literal", Dedup(Cat(flat)))

\* typing.Annotated[args]: a type and at least one annotation; nested
\* Annotated are flattened.
SubscriptAnnotated(args) ==
    IF Len(args) < 2 THEN Err("TypeError")
    ELSE LET base == TypeConvert(args[1]) IN
         IF base.k = "err" THEN base
         ELSE IF base.k = "ann" THEN Mk("ann", "Annotated", base.a \o Tail(args))
         ELSE Mk("ann", "Annotated", <<base>> \o Tail(args))

\* The classes that define __class_getitem__ (builtin and collections.abc generics).
SubscriptableClasses == {"list", "dict", "tuple", "Sequence", "Mapping"}

\* origin[args] for an origin object and a tuple of arguments.
Subscript(o, args) ==
    IF o = "Union" THEN SubscriptUnion(args)
    ELSE IF o = "Literal" THEN SubscriptLiteral(args)
    ELSE IF o = "Annotated" THEN SubscriptAnnotated(args)
    ELSE IF o \in SubscriptableClasses THEN Mk("ga", o, args)
    ELSE Err("TypeError")

\* What types.UnionType accepts as a member (type.__or__): classes, None and
\* types.GenericAlias.
IsUnionable(v) == v.k \in {"class", "none", "ga", "union"}

\* The typing objects that define __or__ / __ror__ as Union[left, right].
HasTypingOr(v) == v.k \in {"tga", "sga", "tunion", "literal", "ann", "fwd", "special"}

\* Every union made a bitwise union, whatever its members (a mutant of PyOr).
PyOr_AlwaysBitwise(x, y) ==
    IF x.k = "err" THEN x
    ELSE IF y.k = "err" THEN y
    ELSE LET flat == Dedup(FlattenUnion(MapSeq(TypeConvert, <<x, y>>)))
         IN  IF Len(flat) = 1 THEN flat[1] ELSE Mk("union", "UnionType", flat)

\* left | right
PyOr(x, y) ==
    IF x.k = "err" THEN x
    ELSE IF y.k = "err" THEN y
    ELSE IF IsUnionable(x) /\ IsUnionable(y) THEN
        LET flat == Dedup(FlattenUnion(MapSeq(TypeConvert, <<x, y>>)))
        IN  IF Len(flat) = 1 THEN flat[1] ELSE Mk("union", "UnionType", flat)
    ELSE IF HasTypingOr(x) \/ HasTypingOr(y) THEN SubscriptUnion(<<x, y>>)
    ELSE Err("TypeError")

\* result = args[0]; for arg in args[1:]: result = result | arg
FoldOr(acc, rest) == IF rest = <<>> THEN acc ELSE FoldOr(PyOr(acc, rest[1]), Tail(rest))

\* ------------------------------------------------------------------------
\* compat/django.py: GenericContainer
\* ------------------------------------------------------------------------

GenericContainer(origin, args) == Mk("gc", origin, args)

\* GenericContainer.wrap
wrap(value) ==
    IF IsAnnotatedAlias(value) THEN
        GenericContainer("Annotated", MapSeq(wrap, value.a))
    ELSE IF IsGenericType(value) THEN
        GenericContainer(get_origin(value), MapSeq(wrap, get_args(value)))
    ELSE value

\* The union fold dropped: a bitwise union rebuilt by subscription, as any
\* other origin (a mutant of Reconstruct).
Reconstruct_NoUnionFold(origin, unwrapped_args) ==
    LET r == Subscript(origin, unwrapped_args)
    IN  IF r.k = "err" /\ r.o = "TypeError" THEN Mk("ga", origin, unwrapped_args) ELSE r

\* The tail of GenericContainer.unwrap: rebuild the type from its origin
\* and its unwrapped arguments.
Reconstruct(origin, unwrapped_args) ==
    IF \E i \in 1..Len(unwrapped_args) : unwrapped_args[i].k = "err" THEN
        (CHOOSE e \in {unwrapped_args[i] : i \in 1..Len(unwrapped_args)} : e.k = "err")
    ELSE IF origin = "UnionType" THEN FoldOr(unwrapped_args[1], Tail(unwrapped_args))
    ELSE LET r == Subscript(origin, unwrapped_args)
         IN  IF r.k = "err" /\ r.o = "TypeError"
             THEN Mk("ga", origin, unwrapped_args)
             ELSE r

\* BaseContainer.unwrap: value.unwrap(value) for an instance of a subclass,
\* which is the unwrap of the container's own class.
BaseContainer_unwrap(value) ==
    IF value.k = "gc" THEN unwrap(value)
    ELSE IF value.k = "dcc" THEN DataclassContainer_unwrap(value)
    ELSE value

\* GenericContainer.unwrap
unwrap(value) ==
    IF value.k # "gc" THEN value
    ELSE IF value.a = <<>> THEN OriginValue(value.o)
    ELSE Reconstruct(value.o, MapSeq(BaseContainer_unwrap, value.a))

\* ------------------------------------------------------------------------
\* Migration serializers: Django's serializer_factory with the strategies
\* compat/django.py registers.  Source text is a sequence of tokens; a
\* module path is one token, a string literal is ' content '.
\* ------------------------------------------------------------------------

\* The module that defines a class or a typing object (its __module__).
ModuleOf(n) ==
    CASE n \in {"Union", "Literal", "Annotated", "ForwardRef"} -> "typing"
      [] n = "UnionType" -> "types"
      [] n \in {"Sequence", "Mapping"} -> "collections.abc"
      [] n \in {"InnerSchema", "OtherSchema", "FilterSchema", "Point", "Segment", "Path"} -> "tests.conftest"
      [] n = "SampleSchema" -> "tests.test_app.models"
      [] n = "MsgspecSchemaField" -> "django_msgspec_field.fields"
      [] n = "DjangoJSONEncoder" -> "django.core.serializers.json"
      [] n \in {"GenericContainer", "DataclassContainer"} -> "django_msgspec_field.compat.django"
      [] n = "Meta" -> "msgspec"
      [] OTHER -> "builtins"

Ser(text, imports) == [ok |-> TRUE, text |-> text, imports |-> imports]

SerFail == [ok |-> FALSE, text |-> <<>>, imports |-> {}]

\* ", ".join(parts)
RECURSIVE JoinComma(_)
JoinComma(parts) ==
    IF parts = <<>> THEN <<>>
    ELSE IF Len(parts) = 1 THEN parts[1]
    ELSE parts[1] \o <<",">> \o JoinComma(Tail(parts))

UnionAll(sets) == UNION {sets[i] : i \in DOMAIN sets}

\* django TypeSerializer: type(None) and the builtins by bare name, any other
\* class by module path and name, with the import of its module.
TypeSerializer(v) ==
    IF v.o = "NoneType" THEN Ser(<<"type", "(", "None", ")">>, {})
    ELSE IF ModuleOf(v.o) = "builtins" THEN Ser(<<v.o>>, {})
    ELSE Ser(<<ModuleOf(v.o), ".", v.o>>, {ModuleOf(v.o)})

\* " | ".join(parts)
RECURSIVE JoinBar(_)
JoinBar(parts) ==
    IF parts = <<>> THEN <<>>
    ELSE IF Len(parts) = 1 THEN parts[1]
    ELSE parts[1] \o <<"|">> \o JoinBar(Tail(parts))

\* The repr of a member of a union: None for NoneType, a class of builtins by
\* its name, any other class by module and name, an alias by its own repr.
RECURSIVE type_repr(_)
type_repr(v) ==
    CASE v.k = "class" /\ v.o = "NoneType" -> <<"None">>
      [] v.k = "class" /\ v.o # "NoneType" ->
            IF ModuleOf(v.o) = "builtins" THEN <<v.o>> ELSE <<ModuleOf(v.o), ".", v.o>>
      [] v.k = "ga" ->
            (IF ModuleOf(v.o) = "builtins" THEN <<v.o>> ELSE <<ModuleOf(v.o), ".", v.o>>)
                \o <<"[">> \o JoinComma(MapSeq(type_repr, v.a)) \o <<"]">>
      [] v.k = "union" -> JoinBar(MapSeq(type_repr, v.a))
      [] OTHER -> <<"?">>

\* typing._type_repr of an argument of typing.Union: as type_repr, but
\* NoneType by its name.
typing_type_repr(v) ==
    IF v.k = "class" /\ v.o = "NoneType" THEN <<"NoneType">> ELSE type_repr(v)

\* _UnionGenericAlias.__repr__: typing.Optional[X] for the union of X and
\* NoneType, typing.Union[...] otherwise.
union_repr(v) ==
    IF Len(v.a) = 2 /\ v.a[1] = Cls("NoneType")
        THEN <<"typing", ".", "Optional", "[">> \o typing_type_repr(v.a[2]) \o <<"]">>
    ELSE IF Len(v.a) = 2 /\ v.a[2] = Cls("NoneType")
        THEN <<"typing", ".", "Optional", "[">> \o typing_type_repr(v.a[1]) \o <<"]">>
    ELSE <<"typing", ".", "Union", "[">> \o JoinComma(MapSeq(typing_type_repr, v.a)) \o <<"]">>

\* repr() of the typing objects that are serialized by their repr.
Repr(v) ==
    CASE v.k = "special" -> <<"typing", ".", v.o>>
      [] v.k = "fwd" -> <<"ForwardRef", "(", "'", v.o, "'", ")">>
      [] v.k = "union" -> type_repr(v)
      [] v.k = "tunion" -> union_repr(v)
      [] OTHER -> <<"?">>

\* The strategies registered for the values of the model, in registration
\* order; a later registration of the same type replaces the strategy and
\* keeps the place.  kinds: the runtime kinds that are instances of the type.
Registrations ==
    << [type |-> "list", kinds |-> {"list"}, serializer |-> "SequenceSerializer"],
       [type |-> "set", kinds |-> {"set"}, serializer |-> "SetSerializer"],
       [type |-> "tuple", kinds |-> {"tuple"}, serializer |-> "TupleSerializer"],
       [type |-> "dict", kinds |-> {"dict"}, serializer |-> "DictionarySerializer"],
       [type |-> "simple", kinds |-> {"str", "int", "none", "bool"}, serializer |-> "BaseSimpleSerializer"],
       [type |-> "DataclassContainer", kinds |-> {"dcc"}, serializer |-> "DataclassContainerSerializer"],
       [type |-> "BaseContainer", kinds |-> {"gc", "dcc"}, serializer |-> "BaseContainerSerializer"],
       [type |-> "types.GenericAlias", kinds |-> {"ga"}, serializer |-> "TypingSerializer"],
       [type |-> "typing._GenericAlias", kinds |-> {"tga", "tunion", "literal", "ann"}, serializer |-> "TypingSerializer"],
       [type |-> "typing._SpecialGenericAlias", kinds |-> {"sga"}, serializer |-> "TypingSerializer"],
       [type |-> "typing._UnionGenericAlias", kinds |-> {"tunion"}, serializer |-> "TypingSerializer"],
       [type |-> "types.UnionType", kinds |-> {"union"}, serializer |-> "TypingSerializer"],
       [type |-> "typing.ForwardRef", kinds |-> {"fwd"}, serializer |-> "TypingSerializer"],
       [type |-> "typing._SpecialForm", kinds |-> {"special"}, serializer |-> "TypingSerializer"],
       [type |-> "typing._SpecialForm", kinds |-> {"special"}, serializer |-> "TypingSerializer"],
       [type |-> "types.UnionType", kinds |-> {"union"}, serializer |-> "UnionTypeSerializer"],
       [type |-> "typing._UnionGenericAlias", kinds |-> {"tunion"}, serializer |-> "UnionTypeSerializer"],
       [type |-> "msgspec.Meta", kinds |-> {"meta"}, serializer |-> "MsgspecMetaSerializer"] >>

\* MigrationWriter.register_serializer: _registry[type_] = serializer
RECURSIVE RegisterAll(_, _)
RegisterAll(registry, regs) ==
    IF regs = <<>> THEN registry
    ELSE LET r == regs[1]
             at == {i \in 1..Len(registry) : registry[i].type = r.type}
         IN  IF at = {} THEN RegisterAll(Append(registry, r), Tail(regs))
             ELSE RegisterAll([i \in 1..Len(registry) |-> IF i \in at THEN r ELSE registry[i]],
                              Tail(regs))

Registry == RegisterAll(<<>>, Registrations)

\* serializer_factory: a class goes to TypeSerializer, any other value to the
\* first registered strategy whose type it is an instance of.
SerializerFor(v) ==
    IF v.k = "class" THEN "TypeSerializer"
    ELSE LET hits == {i \in 1..Len(Registry) : v.k \in Registry[i].kinds}
         IN  IF hits = {} THEN "ValueError"
             ELSE Registry[CHOOSE i \in hits : \A j \in hits : i <= j].serializer

RECURSIVE Serialize(_)

\* BaseSequenceSerializer / TupleSerializer: "(%s)", or "(%s,)" for one item.
TupleSerializer(v) ==
    LET parts == MapSeq(Serialize, v.a)
    IN  IF \E i \in 1..Len(parts) : ~parts[i].ok THEN SerFail
        ELSE Ser(<<"(">> \o JoinComma([i \in 1..Len(parts) |-> parts[i].text])
                    \o (IF Len(parts) = 1 THEN <<",", ")">> ELSE <<")">>),
                 UnionAll([i \in 1..Len(parts) |-> parts[i].imports]))

\* The serialized items of a list, a set or a tuple joined by ", ".
JoinedItems(parts) == JoinComma([i \in 1..Len(parts) |-> parts[i].text])

ItemImports(parts) == UnionAll([i \in 1..Len(parts) |-> parts[i].imports])

ItemsOk(parts) == \A i \in 1..Len(parts) : parts[i].ok

\* django SequenceSerializer (list): "[%s]", given the serialized items.
SequenceSerializer(parts) ==
    IF ~ItemsOk(parts) THEN SerFail
    ELSE Ser(<<"[">> \o JoinedItems(parts) \o <<"]">>, ItemImports(parts))

\* django SetSerializer: "{%s}", or "set(%s)" for the empty set.
SetSerializer(parts) ==
    IF ~ItemsOk(parts) THEN SerFail
    ELSE IF parts = <<>> THEN Ser(<<"set", "(", ")">>, {})
    ELSE Ser(<<"{">> \o JoinedItems(parts) \o <<"}">>, ItemImports(parts))

\* django DictionarySerializer: "{%s}" of "key: value" pairs, given the keys
\* and the serialized values.
DictionarySerializer(keys, parts) ==
    IF ~ItemsOk(parts) THEN SerFail
    ELSE Ser(<<"{">>
                \o JoinComma([i \in 1..Len(parts) |-> <<"'", keys[i], "'", ":">> \o parts[i].text])
                \o <<"}">>,
             ItemImports(parts))

\* BaseSimpleSerializer: repr(value)
BaseSimpleSerializer(v) ==
    IF v.k = "str" THEN Ser(<<"'", v.o, "'">>, {}) ELSE Ser(<<v.o>>, {})

\* imports.update(attr_imports) dropped: only the container class is imported
\* (a mutant of BaseContainerSerializer).
BaseContainerSerializer_NoAttrImports(v) ==
    LET tp == TypeSerializer(Cls("GenericContainer"))
        origin == Serialize(OriginValue(v.o))
        args == Serialize(Mk("tuple", "", v.a))
    IN  IF ~origin.ok \/ ~args.ok THEN SerFail
        ELSE Ser(tp.text \o <<"(">> \o JoinComma(<<origin.text, args.text>>) \o <<")">>,
                 tp.imports)

\* BaseContainerSerializer.serialize for a GenericContainer: the class, then
\* each slot (origin, args) through serializer_factory.
BaseContainerSerializer(v) ==
    LET tp == TypeSerializer(Cls("GenericContainer"))
        origin == Serialize(OriginValue(v.o))
        args == Serialize(Mk("tuple", "", v.a))
    IN  IF ~origin.ok \/ ~args.ok THEN SerFail
        ELSE Ser(tp.text \o <<"(">> \o JoinComma(<<origin.text, args.text>>) \o <<")">>,
                 tp.imports \cup origin.imports \cup args.imports)

\* TypingSerializer.serialize
TypingSerializer(v) ==
    LET value == wrap(v)
    IN  IF value.k = "gc" THEN Serialize(value)
        ELSE LET orig_module == "typing"
                 orig_repr == Repr(v)
             IN  Ser(IF orig_repr[1] = orig_module THEN orig_repr
                     ELSE <<orig_module, ".">> \o orig_repr,
                     {orig_module})

\* DataclassContainerSerializer.serialize: the class through
\* serializer_factory, then name=value for each item of kwargs.
DataclassContainerSerializer(v) ==
    LET tp == Serialize(Cls(v.o))
        vals == [i \in 1..Len(v.a[1].a) |-> Serialize(v.a[1].a[i].a[1])]
    IN  IF ~tp.ok \/ ~ItemsOk(vals) THEN SerFail
        ELSE Ser(tp.text \o <<"(">>
                    \o JoinComma([i \in 1..Len(vals) |-> <<v.a[1].a[i].o, "=">> \o vals[i].text])
                    \o <<")">>,
                 tp.imports \cup ItemImports(vals))

\* UnionTypeSerializer.serialize: repr(value); the typing import for a union
\* object; the arguments are serialized for their imports alone.
UnionTypeSerializer(v) ==
    LET parts == MapSeq(Serialize, get_args(v))
    IN  IF ~ItemsOk(parts) THEN SerFail
        ELSE Ser(Repr(v),
                 (IF v.k \in {"special", "union", "tunion"} THEN {"typing"} ELSE {})
                    \cup ItemImports(parts))

\* MsgspecMetaSerializer.serialize: msgspec.Meta(k=v, ...) over the set fields.
MsgspecMetaSerializer(v) ==
    LET vals == [i \in 1..Len(v.a) |-> Serialize(v.a[i].a[1])]
    IN  IF \E i \in 1..Len(vals) : ~vals[i].ok THEN SerFail
        ELSE Ser(<<"msgspec", ".", "Meta", "(">>
                    \o JoinComma([i \in 1..Len(vals) |-> <<v.a[i].o, "=">> \o vals[i].text])
                    \o <<")">>,
                 {"msgspec"} \cup UnionAll([i \in 1..Len(vals) |-> vals[i].imports]))

\* serializer_factory(value).serialize()
Serialize(v) ==
    LET s == SerializerFor(v)
    IN  CASE s = "TypeSerializer" -> TypeSerializer(v)
          [] s = "TupleSerializer" -> TupleSerializer(v)
          [] s = "SequenceSerializer" -> SequenceSerializer(MapSeq(Serialize, v.a))
          [] s = "SetSerializer" -> SetSerializer(MapSeq(Serialize, v.a))
          [] s = "DictionarySerializer" ->
                DictionarySerializer([i \in 1..Len(v.a) |-> v.a[i].o],
                                     [i \in 1..Len(v.a) |-> Serialize(v.a[i].a[1])])
          [] s = "BaseSimpleSerializer" -> BaseSimpleSerializer(v)
          [] s = "BaseContainerSerializer" -> BaseContainerSerializer(v)
          [] s = "TypingSerializer" -> TypingSerializer(v)
          [] s = "MsgspecMetaSerializer" -> MsgspecMetaSerializer(v)
          [] s = "DataclassContainerSerializer" -> DataclassContainerSerializer(v)
          [] s = "UnionTypeSerializer" -> UnionTypeSerializer(v)
          [] OTHER -> SerFail

\* ------------------------------------------------------------------------
\* Evaluation of the generated source text (the interpreter's eval)
\* ------------------------------------------------------------------------

Punctuation == {"(", ")", ",", ".", "'", "=", "[", "]", "{", "}", ":"}

IntTokens == {"0", "1", "2"}

BuiltinNames == {"list", "dict", "tuple", "set", "int", "str", "type"}

\* A bare name: a builtin, None, or an imported module.
LookupName(t, imported) ==
    IF t = "None" THEN NoneValue
    ELSE IF t \in {"True", "False"} THEN Mk("bool", t, <<>>)
    ELSE IF t \in BuiltinNames THEN Cls(t)
    ELSE IF t \in imported THEN Mk("module", t, <<>>)
    ELSE Err("NameError")

\* value.attr
GetAttr(v, attr) ==
    IF v.k = "err" THEN v
    ELSE IF v.k = "module" /\ attr \notin BuiltinNames /\ ModuleOf(attr) = v.o
        THEN (IF attr \in SpecialForms THEN Special(attr) ELSE Cls(attr))
    ELSE Err("AttributeError")

\* callee(*items): items are values and keyword arguments (kind kw).
CallValue(f, items) ==
    LET pos == SelectSeq(items, LAMBDA x : x.k # "kw")
        kws == SelectSeq(items, LAMBDA x : x.k = "kw")
    IN  IF f.k = "err" THEN f
        ELSE IF \E i \in 1..Len(items) : items[i].k = "err" THEN Err("NameError")
        ELSE IF f = Cls("type") /\ Len(pos) = 1 /\ kws = <<>> THEN
            (IF pos[1].k = "none" THEN Cls("NoneType") ELSE Err("TypeError"))
        ELSE IF f = Cls("GenericContainer") /\ kws = <<>> /\ Len(pos) \in {1, 2} THEN
            (IF Len(pos) = 1 THEN GenericContainer(pos[1].o, <<>>)
             ELSE IF pos[2].k = "tuple" THEN GenericContainer(pos[1].o, pos[2].a)
             ELSE Err("TypeError"))
        ELSE IF f = Cls("ForwardRef") /\ Len(pos) = 1 /\ pos[1].k = "str" THEN Fwd(pos[1].o)
        ELSE IF f = Cls("Meta") /\ pos = <<>> THEN Mk("meta", "Meta", kws)
        ELSE IF f = Cls("set") /\ items = <<>> THEN Mk("set", "", <<>>)
        ELSE IF f = Cls("MsgspecSchemaField") /\ pos = <<>> THEN Mk("newfield", "", kws)
        ELSE Err("TypeError")

RECURSIVE ParseExpr(_, _, _)
RECURSIVE ParseItems(_, _, _, _, _, _)
RECURSIVE ParsePostfix(_, _, _, _)

\* The items from position i up to the closing token: values, keyword
\* arguments, key: value pairs, and whether a comma closes the list.
ParseItems(toks, i, acc, trail, imported, close) ==
    IF i > Len(toks) THEN [items |-> <<Err("SyntaxError")>>, i |-> i, trail |-> trail]
    ELSE IF toks[i] = close THEN [items |-> acc, i |-> i + 1, trail |-> trail]
    ELSE IF toks[i] = "," THEN ParseItems(toks, i + 1, acc, TRUE, imported, close)
    ELSE IF i < Len(toks) /\ toks[i + 1] = "=" THEN
        LET r == ParseExpr(toks, i + 2, imported)
        IN  ParseItems(toks, r.i, Append(acc, Mk("kw", toks[i], <<r.v>>)), FALSE, imported, close)
    ELSE LET r == ParseExpr(toks, i, imported)
         IN  IF r.v.k = "err" THEN [items |-> <<r.v>>, i |-> Len(toks) + 1, trail |-> trail]
             ELSE IF r.i <= Len(toks) /\ toks[r.i] = ":" /\ r.v.k = "str" THEN
                 LET w == ParseExpr(toks, r.i + 1, imported)
                 IN  IF w.v.k = "err"
                     THEN [items |-> <<w.v>>, i |-> Len(toks) + 1, trail |-> trail]
                     ELSE ParseItems(toks, w.i, Append(acc, Mk("kv", r.v.o, <<w.v>>)), FALSE,
                                     imported, close)
             ELSE ParseItems(toks, r.i, Append(acc, r.v), FALSE, imported, close)

\* The value of a display (...), [...] or {...}, given its parsed items.
Display(open, r) ==
    IF \E j \in 1..Len(r.items) : r.items[j].k = "err"
        THEN [v |-> (CHOOSE e \in {r.items[j] : j \in 1..Len(r.items)} : e.k = "err"), i |-> r.i]
    ELSE IF open = "[" THEN [v |-> Mk("list", "", r.items), i |-> r.i]
    ELSE IF open = "{" THEN
        [v |-> IF \A j \in 1..Len(r.items) : r.items[j].k = "kv"
               THEN Mk("dict", "", r.items) ELSE Mk("set", "", r.items),
         i |-> r.i]
    ELSE IF Len(r.items) = 1 /\ ~r.trail THEN [v |-> r.items[1], i |-> r.i]
    ELSE [v |-> Mk("tuple", "", r.items), i |-> r.i]

\* Attribute access and calls after a name.
ParsePostfix(toks, i, cur, imported) ==
    IF cur.k = "err" \/ i > Len(toks) THEN [v |-> cur, i |-> i]
    ELSE IF toks[i] = "." /\ i < Len(toks) THEN
        ParsePostfix(toks, i + 2, GetAttr(cur, toks[i + 1]), imported)
    ELSE IF toks[i] = "(" THEN
        LET r == ParseItems(toks, i + 1, <<>>, FALSE, imported, ")")
        IN  ParsePostfix(toks, r.i, CallValue(cur, r.items), imported)
    ELSE [v |-> cur, i |-> i]

\* One expression from position i: its value and the position after it.
ParseExpr(toks, i, imported) ==
    IF i > Len(toks) THEN [v |-> Err("SyntaxError"), i |-> i]
    ELSE IF toks[i] = "'" THEN
        (IF i + 2 <= Len(toks) /\ toks[i + 2] = "'" THEN [v |-> Str(toks[i + 1]), i |-> i + 3]
         ELSE [v |-> Err("SyntaxError"), i |-> i])
    ELSE IF toks[i] = "(" THEN Display("(", ParseItems(toks, i + 1, <<>>, FALSE, imported, ")"))
    ELSE IF toks[i] = "[" THEN Display("[", ParseItems(toks, i + 1, <<>>, FALSE, imported, "]"))
    ELSE IF toks[i] = "{" THEN Display("{", ParseItems(toks, i + 1, <<>>, FALSE, imported, "}"))
    ELSE IF toks[i] \in Punctuation THEN [v |-> Err("SyntaxError"), i |-> i]
    ELSE IF toks[i] \in IntTokens THEN [v |-> Mk("int", toks[i], <<>>), i |-> i + 1]
    ELSE ParsePostfix(toks, i + 1, LookupName(toks[i], imported), imported)

\* eval(text) with the modules of imports imported.
Evaluate(text, imported) ==
    LET r == ParseExpr(text, 1, imported)
    IN  IF r.v.k # "err" /\ r.i # Len(text) + 1 THEN Err("SyntaxError") ELSE r.v

\* ------------------------------------------------------------------------
\* The type expressions the checks range over
\* ------------------------------------------------------------------------

\* Nesting depth of the generated type expressions.
MaxDepth == 2

\* An annotation object carried by Annotated: msgspec.Meta(gt=0).
MetaGt0 == Mk("meta", "Meta", <<Mk("kw", "gt", <<Mk("int", "0", <<>>)>>)>>)

TypeAtoms == {Cls("int"), Cls("NoneType"), Cls("InnerSchema")}

SecondAtoms == {Cls("str"), Cls("NoneType")}

NotErr(S) == {v \in S : v.k # "err"}

\* One more level of generics over the expressions of S, built by the
\* interpreter's own constructors.
Generics(S) ==
    {Mk("ga", "list", <<a>>) : a \in S}
    \cup {Mk("tga", "list", <<a>>) : a \in S}
    \cup {Mk("ga", "dict", <<Cls("str"), a>>) : a \in S}
    \cup {Mk("ga", "tuple", <<a, b>>) : a \in S, b \in SecondAtoms}
    \cup NotErr({SubscriptUnion(<<a, b>>) : a \in S, b \in SecondAtoms})
    \cup NotErr({PyOr(a, b) : a \in S, b \in SecondAtoms})
    \cup NotErr({SubscriptAnnotated(<<a, MetaGt0>>) : a \in S})
    \cup {SubscriptLiteral(<<Str("foo")>>), Mk("sga", "list", <<>>), Mk("ga", "tuple", <<>>)}

RECURSIVE TypesOfDepth(_)
TypesOfDepth(d) ==
    IF d = 0 THEN TypeAtoms
    ELSE LET S == TypesOfDepth(d - 1) IN S \cup Generics(S)

\* Values that are not generic type expressions.
PlainValues == {Cls("str"), Cls("list"), Fwd("str")}

TypeUniverse == TypesOfDepth(MaxDepth) \cup PlainValues

\* Whether v holds a value of one of the kinds at any depth.
RECURSIVE HasKind(_, _)
HasKind(v, kinds) == v.k \in kinds \/ \E i \in 1..Len(v.a) : HasKind(v.a[i], kinds)

\* ------------------------------------------------------------------------
\* Data values, struct types and msgspec's conversions
\* ------------------------------------------------------------------------
\* Data values are records of the same shape as type values:
\*   int (o = its digits), str, none, date (o = ISO text), list (a = items),
\*   dict (a = <<kv...>>, kv.o = key, kv.a = <<value>>), struct (o = class,
\*   a = member values in declaration order).

PyInt(n) == Mk("int", n, <<>>)

Date(s) == Mk("date", s, <<>>)

List(items) == Mk("list", "", items)

KV(key, value) == Mk("kv", key, <<value>>)

Dict(pairs) == Mk("dict", "", pairs)

Struct(cls, values) == Mk("struct", cls, values)

ErrMsg(e, msg) == Mk("err", e, <<Str(msg)>>)

ValidationError == Err("ValidationError")

\* A struct member: name, annotation, default (Unset when required).
Field(n, t, d) == [n |-> n, t |-> t, d |-> d]

\* The struct classes: InnerSchema (tests/conftest.py), SampleSchema
\* (tests/test_app/models.py), a class of the same name nested in a model
\* class, a three-member struct with an optional member and defaults, and
\* a struct whose first default is the text of the member's own name.
StructFields(cls) ==
    CASE cls = "InnerSchema" ->
            <<Field("stub_str", Cls("str"), Unset),
              Field("stub_list", Mk("tga", "list", <<Cls("date")>>), Unset),
              Field("stub_int", Cls("int"), PyInt("1"))>>
      [] cls = "SampleSchema" -> <<Field("field", Cls("int"), PyInt("1"))>>
      [] cls = "NestedModel.SampleSchema" -> <<Field("field", Cls("str"), Str("x"))>>
      [] cls = "FilterSchema" ->
            <<Field("a", Cls("str"), Unset),
              Field("b", Mk("tunion", "Union", <<Cls("int"), Cls("NoneType")>>), PyInt("1")),
              Field("c", Cls("int"), PyInt("2"))>>
      [] cls = "TaggedSchema" ->
            <<Field("kind", Cls("str"), Str("kind")), Field("size", Cls("int"), PyInt("0"))>>
      [] cls = "TestStruct" -> <<Field("data", Cls("dict"), Unset)>>
      [] OTHER -> <<>>

StructNames ==
    {"InnerSchema", "SampleSchema", "NestedModel.SampleSchema", "FilterSchema", "TaggedSchema"}

IsStructClass(v) == v.k = "class" /\ v.o \in StructNames

\* Texts that lax conversion reads as an integer, and texts that are ISO dates.
IsDigits(s) == s \in {"0", "1", "2"}

IsDateText(s) == s \in {"2022-07-01"}

HasKey(pairs, key) == \E i \in 1..Len(pairs) : pairs[i].o = key

\* dict[key]
GetKey(pairs, key) == pairs[CHOOSE i \in 1..Len(pairs) : pairs[i].o = key].a[1]

\* The first exception of a sequence of results (evaluation is left to right).
FirstErr(s) == s[CHOOSE i \in 1..Len(s) : s[i].k = "err" /\ \A j \in 1..(i - 1) : s[j].k # "err"]

AnyErr(s) == \E i \in 1..Len(s) : s[i].k = "err"

\* msgspec.convert(value, schema, strict=strict).  Unions are unions of None
\* with other types: the first member that accepts the value converts it.
RECURSIVE convert(_, _, _)
convert(value, schema, strict) ==
    IF schema.k = "class" /\ schema.o = "int" THEN
        IF value.k = "int" THEN value
        ELSE IF value.k = "str" /\ ~strict /\ IsDigits(value.o) THEN PyInt(value.o)
        ELSE ValidationError
    ELSE IF schema.k = "class" /\ schema.o = "str" THEN
        IF value.k = "str" THEN value ELSE ValidationError
    ELSE IF schema.k = "class" /\ schema.o = "date" THEN
        IF value.k = "date" THEN value
        ELSE IF value.k = "str" /\ IsDateText(value.o) THEN Date(value.o)
        ELSE ValidationError
    ELSE IF schema.k = "class" /\ schema.o = "NoneType" THEN
        IF value.k = "none" THEN value ELSE ValidationError
    ELSE IF schema.k \in {"tunion", "union"} THEN
        LET ok == {i \in 1..Len(schema.a) : convert(value, schema.a[i], strict).k # "err"}
        IN  IF ok = {} THEN ValidationError
            ELSE convert(value, schema.a[CHOOSE i \in ok : \A j \in ok : i <= j], strict)
    ELSE IF IsStructClass(schema) THEN
        IF value.k = "struct" THEN
            IF value.o = schema.o THEN value ELSE ValidationError
        ELSE IF value.k = "dict" THEN
            LET fs == StructFields(schema.o)
                vals == [i \in 1..Len(fs) |->
                            IF HasKey(value.a, fs[i].n)
                            THEN convert(GetKey(value.a, fs[i].n), fs[i].t, strict)
                            ELSE IF fs[i].d = Unset THEN ValidationError ELSE fs[i].d]
            IN  IF AnyErr(vals) THEN ValidationError ELSE Struct(schema.o, vals)
        ELSE ValidationError
    ELSE IF schema.k \in {"ga", "tga"} /\ schema.o \in {"list", "Sequence"} /\ Len(schema.a) = 1 THEN
        IF value.k = "list" THEN
            LET items == [i \in 1..Len(value.a) |-> convert(value.a[i], schema.a[1], strict)]
            IN  IF AnyErr(items) THEN ValidationError ELSE List(items)
        ELSE ValidationError
    ELSE IF schema.k \in {"ga", "tga"} /\ schema.o \in {"dict", "Mapping"} /\ Len(schema.a) = 2 THEN
        IF value.k = "dict" THEN
            LET items == [i \in 1..Len(value.a) |-> convert(value.a[i].a[1], schema.a[2], strict)]
            IN  IF AnyErr(items) THEN ValidationError
                ELSE Dict([i \in 1..Len(value.a) |-> KV(value.a[i].o, items[i])])
        ELSE ValidationError
    ELSE ValidationError

\* msgspec.to_builtins(value): structs become dicts of all their members in
\* declaration order, dates become ISO text.
RECURSIVE to_builtins(_)
to_builtins(value) ==
    IF value.k = "struct" THEN
        LET fs == StructFields(value.o)
        IN  Dict([i \in 1..Len(fs) |-> KV(fs[i].n, to_builtins(value.a[i]))])
    ELSE IF value.k = "date" THEN Str(value.o)
    ELSE IF value.k = "list" THEN List([i \in 1..Len(value.a) |-> to_builtins(value.a[i])])
    ELSE IF value.k = "dict" THEN
        Dict([i \in 1..Len(value.a) |-> KV(value.a[i].o, to_builtins(value.a[i].a[1]))])
    ELSE value

\* An instance of tests/test_conf.py CustomType, a type msgspec does not know.
Custom(v) == Mk("custom", "CustomType", <<Str(v)>>)

\* enc_hook(obj) for the hooks of tests/test_conf.py: custom_enc_hook and
\* other_enc_hook.
call_enc_hook(enc_hook, obj) ==
    IF enc_hook.o = "custom_enc_hook" THEN
        IF obj.k = "custom" THEN Dict(<<KV("__custom_type__", obj.a[1])>>)
        ELSE Err("NotImplementedError")
    ELSE Str("other")

\* A converted container, or the first exception a member raised.
builtins_or_error(items, container) == IF AnyErr(items) THEN FirstErr(items) ELSE container

\* msgspec.to_builtins(value, enc_hook=enc_hook): as to_builtins, and an
\* object of an unsupported type is given to enc_hook, whose result is
\* converted; without a hook it is a TypeError.
RECURSIVE to_builtins_enc_hook(_, _)
to_builtins_enc_hook(value, enc_hook) ==
    IF value.k = "custom" THEN
        IF enc_hook.k # "function" THEN Err("TypeError")
        ELSE to_builtins_enc_hook(call_enc_hook(enc_hook, value), enc_hook)
    ELSE IF value.k = "struct" THEN
        builtins_or_error(
            [i \in 1..Len(value.a) |-> to_builtins_enc_hook(value.a[i], enc_hook)],
            Dict([i \in 1..Len(value.a) |->
                    KV(StructFields(value.o)[i].n, to_builtins_enc_hook(value.a[i], enc_hook))]))
    ELSE IF value.k = "list" THEN
        builtins_or_error(
            [i \in 1..Len(value.a) |-> to_builtins_enc_hook(value.a[i], enc_hook)],
            List([i \in 1..Len(value.a) |-> to_builtins_enc_hook(value.a[i], enc_hook)]))
    ELSE IF value.k = "dict" THEN
        builtins_or_error(
            [i \in 1..Len(value.a) |-> to_builtins_enc_hook(value.a[i].a[1], enc_hook)],
            Dict([i \in 1..Len(value.a) |->
                    KV(value.a[i].o, to_builtins_enc_hook(value.a[i].a[1], enc_hook))]))
    ELSE IF value.k = "date" THEN Str(value.o)
    ELSE value

\* ------------------------------------------------------------------------
\* The schema adapter (types.py)
\* ------------------------------------------------------------------------

PyTrue == Mk("bool", "True", <<>>)

PyFalse == Mk("bool", "False", <<>>)

PyBool(b) == IF b THEN PyTrue ELSE PyFalse

\* bool(v) for the option values None, True, False and for an absent option.
Truthy(v) == v = PyTrue

\* parent_type and attname hold a name, or NoneName for None.
NoneName == ""

\* Two model classes of one module: SampleForwardRefModel
\* (tests/test_app/models.py) and a class that nests a struct named like a
\* module-level one and annotates a member with a name nobody defines.
OwnerClasses == {"SampleForwardRefModel", "NestedModel"}

AttNames == {"annotated_field", "field"}

\* cls.__dict__["__annotations__"]
Annotations(cls) ==
    CASE cls = "SampleForwardRefModel" -> <<KV("annotated_field", Str("SampleSchema"))>>
      [] cls = "NestedModel" ->
            <<KV("annotated_field", Str("SampleSchema")), KV("field", Fwd("Missing"))>>
      [] OTHER -> <<>>

\* vars(cls), the names forward references can see
ClassMembers(cls) ==
    CASE cls = "NestedModel" -> <<KV("SampleSchema", Cls("NestedModel.SampleSchema"))>>
      [] OTHER -> <<>>

\* The names eval finds in builtins.
PyBuiltins == {"int", "str", "list", "dict"}

get_annotations(obj) == IF obj = NoneName THEN <<>> ELSE Annotations(obj)

get_annotated_type(obj, field) ==
    IF HasKey(get_annotations(obj), field) THEN GetKey(get_annotations(obj), field)
    ELSE NoneValue

get_local_namespace(cls) == IF cls = NoneName THEN <<>> ELSE ClassMembers(cls)

\* vars(sys.modules[cls.__module__]); g is the module's globals as they stand.
get_global_namespace(cls, g) == IF cls = NoneName THEN <<>> ELSE g

\* ChainMap(global, local): a name of both maps reads the module's one
\* (a mutant of get_namespace).
get_namespace_GlobalFirst(cls, g) ==
    LET global == get_global_namespace(cls, g)
        IsNew(kv) == ~HasKey(global, kv.o)
    IN  global \o SelectSeq(get_local_namespace(cls), IsNew)

\* ChainMap(local, global): a name of both maps reads the local one.
get_namespace(cls, g) ==
    LET local == get_local_namespace(cls)
        IsNew(kv) == ~HasKey(local, kv.o)
    IN  local \o SelectSeq(get_global_namespace(cls, g), IsNew)

\* ref._evaluate(dict(ns), {}): the namespace, then builtins, else NameError.
evaluate_forward_ref(ref, ns) ==
    IF HasKey(ns, ref.o) THEN GetKey(ns, ref.o)
    ELSE IF ref.o \in PyBuiltins THEN Cls(ref.o)
    ELSE ErrMsg("NameError", "name '" \o ref.o \o "' is not defined")

\* export_kwargs; an absent key is Unset.
ExportKwargs(strict, include, exclude, exclude_none, exclude_defaults) ==
    [strict |-> strict, include |-> include, exclude |-> exclude,
     exclude_none |-> exclude_none, exclude_defaults |-> exclude_defaults,
     enc_hook |-> Unset]

NoExportKwargs == ExportKwargs(Unset, Unset, Unset, Unset, Unset)

\* SchemaAdapter.__init__; the last three fields are the instance __dict__
\* entries of the cached properties (Unset: not in __dict__).
SchemaAdapter(schema, parent_type, attname, allow_null, export_kwargs) ==
    [schema |-> BaseContainer_unwrap(schema), parent_type |-> parent_type,
     attname |-> attname, allow_null |-> allow_null, export_kwargs |-> export_kwargs,
     prepared_schema |-> Unset, decoder |-> Unset, encoder |-> Unset]

\* is_bound looking at the owner only (a mutant of is_bound).
is_bound_OwnerOnly(a) == a.parent_type # NoneName

is_bound(a) == a.parent_type # NoneName /\ a.attname # NoneName

\* bind keeps the caches: the three pops are left out (a mutant of bind).
bind_KeepCaches(a, parent_type, attname) ==
    [a EXCEPT !.parent_type = parent_type, !.attname = attname]

bind(a, parent_type, attname) ==
    [a EXCEPT !.parent_type = parent_type, !.attname = attname,
              !.prepared_schema = Unset, !.decoder = Unset, !.encoder = Unset]

guess_schema_from_annotations(a) == get_annotated_type(a.parent_type, a.attname)

\* unwrap(GenericContainer(origin, tuple(args))); the first argument that
\* fails to resolve raises.
resolved_generic(origin, args) ==
    IF AnyErr(args) THEN FirstErr(args) ELSE unwrap(GenericContainer(origin, args))

RECURSIVE resolve_schema_forward_ref(_, _, _)

\* The part of _resolve_schema_forward_ref after wrapped_schema is computed.
resolve_wrapped_schema(a, schema, wrapped_schema, g) ==
    IF wrapped_schema.k # "gc" THEN schema
    ELSE resolved_generic(wrapped_schema.o,
                          [i \in 1..Len(wrapped_schema.a) |->
                              resolve_schema_forward_ref(a, wrapped_schema.a[i], g)])

resolve_schema_forward_ref(a, schema, g) ==
    IF schema = NoneValue THEN NoneValue
    ELSE IF schema.k = "fwd" THEN evaluate_forward_ref(schema, get_namespace(a.parent_type, g))
    ELSE resolve_wrapped_schema(a, schema, wrap(schema), g)

UnboundMessage == "Cannot resolve the schema. The adapter is accessed before it was bound."

AnnotationMessage(a) == "Annotation is not provided for " \o a.parent_type \o "." \o a.attname

\* _prepare_schema up to the resolution: the explicit schema, else the
\* owner's annotation if bound; a string becomes a ForwardRef.
schema_to_resolve(a) ==
    IF a.schema = NoneValue /\ is_bound(a) THEN
        IF guess_schema_from_annotations(a).k = "str"
        THEN Fwd(guess_schema_from_annotations(a).o)
        ELSE guess_schema_from_annotations(a)
    ELSE IF a.schema.k = "str" THEN Fwd(a.schema.o)
    ELSE a.schema

\* _prepare_schema after the resolution: no schema is a configuration error,
\* allow_null wraps the schema in Optional.
resolved_or_error(a, schema) ==
    IF schema.k = "err" THEN schema
    ELSE IF schema = NoneValue THEN
        ErrMsg("ImproperlyConfiguredSchema",
               IF is_bound(a) THEN AnnotationMessage(a) ELSE UnboundMessage)
    ELSE IF Truthy(a.allow_null) THEN SubscriptUnion(<<schema, Cls("NoneType")>>)
    ELSE schema

\* SchemaAdapter._prepare_schema: the resolved schema, or the exception raised.
prepare_schema(a, g) ==
    resolved_or_error(a, resolve_schema_forward_ref(a, schema_to_resolve(a), g))

\* What an operation gives back: the value returned or the exception raised,
\* the adapter as the call leaves it, and the msgspec conversions it made.
Res(v, a, calls) == [v |-> v, a |-> a, calls |-> calls]

\* cached_property storing what the computation raised as well (a mutant of
\* cached).
cached_CacheFailure(a, s) == Res(s, [a EXCEPT !.prepared_schema = s], <<>>)

\* cached_property.__get__ after the value is computed: stored in __dict__
\* unless the computation raised.
cached(a, s) ==
    IF s.k = "err" THEN Res(s, a, <<>>) ELSE Res(s, [a EXCEPT !.prepared_schema = s], <<>>)

\* prepared_schema resolving on every access (a mutant of prepared_schema).
prepared_schema_AlwaysResolve(a, g) == cached(a, prepare_schema(a, g))

\* prepared_schema = cached_property(_prepare_schema): the __dict__ entry if
\* there is one, else the computed value.
prepared_schema(a, g) ==
    IF a.prepared_schema # Unset THEN Res(a.prepared_schema, a, <<>>)
    ELSE cached(a, prepare_schema(a, g))

StoredStrict(a) == IF a.export_kwargs.strict = Unset THEN PyFalse ELSE a.export_kwargs.strict

Decoder(schema, strict) == Mk("decoder", "", <<schema, strict>>)

\* A decoder for the schema as given, not as resolved (a mutant of
\* new_decoder).
new_decoder_GivenSchema(p) ==
    IF p.v.k = "err" THEN p
    ELSE Res(Decoder(p.a.schema, StoredStrict(p.a)),
             [p.a EXCEPT !.decoder = Decoder(p.a.schema, StoredStrict(p.a))], <<>>)

\* The body of _decoder, given the outcome p of self.prepared_schema.
new_decoder(p) ==
    IF p.v.k = "err" THEN p
    ELSE Res(Decoder(p.v, StoredStrict(p.a)),
             [p.a EXCEPT !.decoder = Decoder(p.v, StoredStrict(p.a))], <<>>)

\* _decoder: cached_property building msgspec.json.Decoder(self.prepared_schema, ...)
decoder(a, g) ==
    IF a.decoder # Unset THEN Res(a.decoder, a, <<>>)
    ELSE new_decoder(prepared_schema(a, g))

\* _encoder: cached_property building msgspec.json.Encoder(enc_hook=...)
encoder(a) ==
    IF a.encoder # Unset THEN Res(a.encoder, a, <<>>)
    ELSE Res(Mk("encoder", "", <<>>), [a EXCEPT !.encoder = Mk("encoder", "", <<>>)], <<>>)

\* validate_schema's except clause, given what _prepare_schema returned or raised.
as_config_error(a, s) ==
    IF s.k # "err" THEN Res(NoneValue, a, <<>>)
    ELSE IF s.o = "ImproperlyConfiguredSchema" THEN Res(s, a, <<>>)
    ELSE Res(Mk("err", "ImproperlyConfiguredSchema", s.a), a, <<>>)

validate_schema(a, g) == as_config_error(a, prepare_schema(a, g))

ConvertCall(value, schema, strict) == Mk("call", "convert", <<value, schema, strict>>)

\* msgspec.convert(value, self.prepared_schema, strict=strict), given the
\* outcome p of self.prepared_schema.
converted(p, value, strict) ==
    IF p.v.k = "err" THEN p
    ELSE Res(convert(value, p.v, Truthy(strict)), p.a, <<ConvertCall(value, p.v, strict)>>)

\* validate_python reading only the stored strict option (a mutant of
\* validate_python).
validate_python_StoredStrict(a, value, strict, g) ==
    IF value = NoneValue /\ Truthy(a.allow_null) THEN Res(value, a, <<>>)
    ELSE converted(prepared_schema(a, g), value, StoredStrict(a))

validate_python(a, value, strict, g) ==
    IF value = NoneValue /\ Truthy(a.allow_null) THEN Res(value, a, <<>>)
    ELSE converted(prepared_schema(a, g), value,
                   IF strict = NoneValue THEN StoredStrict(a) ELSE strict)

\* json.loads of the texts the model feeds to validate_json; DecodeError for
\* text that is not JSON.
JsonTexts == {"\"1\"", "{\"field\": 2}", "{"}

json_loads(text) ==
    CASE text = "null" -> NoneValue
      [] text = "\"1\"" -> Str("1")
      [] text = "{\"field\": 2}" -> Dict(<<KV("field", PyInt("2"))>>)
      [] text = "1" -> PyInt("1")
      [] text = "\"\\\"1\\\"\"" -> Str("\"1\"")
      [] text = "{\"stub_str\": \"\", \"stub_list\": []}" ->
            Dict(<<KV("stub_str", Str("")), KV("stub_list", List(<<>>))>>)
      [] OTHER -> Err("DecodeError")

\* Text that is not JSON reported as a validation error (a mutant of decoded).
decoded_AsValidation(d, parsed) ==
    IF d.v.k = "err" THEN d
    ELSE IF parsed.k = "err" THEN Res(ValidationError, d.a, <<>>)
    ELSE Res(convert(parsed, d.v.a[1], Truthy(d.v.a[2])), d.a,
             <<ConvertCall(parsed, d.v.a[1], d.v.a[2])>>)

\* self._decoder.decode(value), given the outcome d of self._decoder and the
\* parsed text: parsing fails first, then the schema is applied.
decoded(d, parsed) ==
    IF d.v.k = "err" THEN d
    ELSE IF parsed.k = "err" THEN Res(parsed, d.a, <<>>)
    ELSE Res(convert(parsed, d.v.a[1], Truthy(d.v.a[2])), d.a,
             <<ConvertCall(parsed, d.v.a[1], d.v.a[2])>>)

\* validate_json decodes with the cached decoder; its strict argument is not read.
validate_json(a, text, strict, g) == decoded(decoder(a, g), json_loads(text))

\* msgspec.json.schema(self.prepared_schema), given the outcome p of self.prepared_schema.
schema_document(p) ==
    IF p.v.k = "err" THEN p ELSE Res(Mk("jsonschema", "", <<p.v>>), p.a, <<>>)

json_schema(a, g) == schema_document(prepared_schema(a, g))

\* schema() of a struct class: the defaults, TypeError when a member is required.
Instantiate(cls) ==
    IF \E i \in 1..Len(StructFields(cls)) : StructFields(cls)[i].d = Unset THEN Err("TypeError")
    ELSE Struct(cls, [i \in 1..Len(StructFields(cls)) |-> StructFields(cls)[i].d])

\* The body of get_default_value, given the outcome p of self.prepared_schema.
default_of(p) ==
    IF p.v.k = "err" THEN p
    ELSE IF IsStructClass(p.v) /\ Instantiate(p.v.o).k # "err"
        THEN Res(Instantiate(p.v.o), p.a, <<>>)
    ELSE Res(NoneValue, p.a, <<>>)

get_default_value(a, g) == default_of(prepared_schema(a, g))

IsConfigError(v) == v.k = "err" /\ v.o = "ImproperlyConfiguredSchema"

\* The body of __eq__, given the outcomes sp and op of self.prepared_schema
\* and other.prepared_schema: only ImproperlyConfiguredSchema is caught; with
\* it, other.prepared_schema is never appended, and when it comes from other
\* the two lists differ in length.
compared(a, other, sp, op) ==
    IF sp.v.k = "err" /\ ~IsConfigError(sp.v) THEN sp
    ELSE IF sp.v.k = "err" THEN
        IF is_bound(a) /\ is_bound(other) THEN Res(PyFalse, a, <<>>)
        ELSE Res(PyBool(/\ a.attname = other.attname
                        /\ a.export_kwargs = other.export_kwargs
                        /\ PyEq(a.schema, other.schema)
                        /\ a.allow_null = other.allow_null), a, <<>>)
    ELSE IF op.v.k = "err" /\ ~IsConfigError(op.v) THEN Res(op.v, sp.a, <<>>)
    ELSE IF op.v.k = "err" THEN Res(PyFalse, sp.a, <<>>)
    ELSE Res(PyBool(/\ a.attname = other.attname
                    /\ a.export_kwargs = other.export_kwargs
                    /\ PyEq(sp.v, op.v)), sp.a, <<>>)

\* SchemaAdapter.__eq__(self, other)
eq(a, other, g) == compared(a, other, prepared_schema(a, g), prepared_schema(other, g))

\* ------------------------------------------------------------------------
\* The adapter's life: construction, binding, the module's later
\* declarations, and the operations that resolve the schema
\* ------------------------------------------------------------------------

\* The schemas an adapter is constructed with.
AdapterSchemas ==
    {NoneValue, Str("SampleSchema"), Fwd("Missing"), Cls("int"), Mk("tga", "list", <<Fwd("int")>>)}

\* The (allow_null, strict) options an adapter is constructed with.
AdapterOptions ==
    {<<NoneValue, Unset>>, <<PyTrue, Unset>>, <<PyFalse, Unset>>, <<NoneValue, PyTrue>>}

\* The (parent_type, attname) pairs bind is called with.
Bindings ==
    {<<NoneName, NoneName>>, <<"NestedModel", NoneName>>,
     <<"SampleForwardRefModel", "annotated_field">>, <<"SampleForwardRefModel", "field">>,
     <<"NestedModel", "annotated_field">>, <<"NestedModel", "field">>}

\* The value SampleSchema gets in the module's globals once declared.
GlobalValues == {Cls("SampleSchema")}

\* The Python values passed to validate_python.
PythonInputs == {NoneValue, Str("1")}

StrictArgs == {NoneValue, PyTrue, PyFalse}

\* The adapters compared with ==: never resolved before the comparison.
OtherAdapters ==
    {SchemaAdapter(NoneValue, NoneName, NoneName, NoneValue, NoExportKwargs),
     SchemaAdapter(NoneValue, "NestedModel", "annotated_field", NoneValue, NoExportKwargs),
     SchemaAdapter(Cls("int"), NoneName, NoneName, NoneValue, NoExportKwargs),
     SchemaAdapter(Fwd("Missing"), NoneName, NoneName, NoneValue, NoExportKwargs),
     SchemaAdapter(NoneValue, NoneName, "annotated_field", NoneValue, NoExportKwargs)}

Out(op, args, v, calls) == [op |-> op, args |-> args, v |-> v, calls |-> calls]

NoOutcome == Out("", <<>>, Unset, <<>>)

\* ------------------------------------------------------------------------
\* Dumping and filtering (types.py, dump_python and _filter_dict)
\* ------------------------------------------------------------------------

\* A set of keys, as include and exclude hold.
KeySet(keys) == Mk("set", "", [i \in 1..Len(keys) |-> Str(keys[i])])

\* bool(s) for an include / exclude option: None and the empty set are falsy.
NonEmpty(s) == s.k = "set" /\ Len(s.a) > 0

\* key in s
InKeys(key, s) == \E i \in 1..Len(s.a) : s.a[i].o = key

\* The defaults of the trailing members of a struct class, as msgspec keeps
\* them in __struct_defaults__: a tuple of values, not a mapping.
StructDefaultsTuple(cls) ==
    LET HasDefault(f) == f.d # Unset
    IN  [i \in 1..Len(SelectSeq(StructFields(cls), HasDefault)) |->
            SelectSeq(StructFields(cls), HasDefault)[i].d]

\* What _filter_dict reads as defaults: {} unless exclude_defaults is set and
\* the original value has __struct_defaults__.  Whether a struct instance
\* exposes the attribute of its class depends on the msgspec build: exposure
\* is "tuple" when it does and "absent" when it does not.
filter_defaults(exclude_defaults, original_value, exposure) ==
    IF Truthy(exclude_defaults) /\ original_value.k = "struct" /\ exposure = "tuple"
    THEN StructDefaultsTuple(original_value.o)
    ELSE <<>>

\* What the loop body of _filter_dict does with one item: "drop" (continue),
\* "keep", or "raise": key in defaults compares the key with the default
\* values, and defaults[key] on a tuple raises TypeError.
item_verdict(kv, include, exclude, exclude_none, exclude_defaults, defaults) ==
    IF NonEmpty(exclude) /\ InKeys(kv.o, exclude) THEN "drop"
    ELSE IF NonEmpty(include) /\ ~InKeys(kv.o, include) THEN "drop"
    ELSE IF Truthy(exclude_none) /\ kv.a[1] = NoneValue THEN "drop"
    ELSE IF Truthy(exclude_defaults) /\ \E i \in 1..Len(defaults) : defaults[i] = Str(kv.o)
        THEN "raise"
    ELSE "keep"

\* SchemaAdapter._filter_dict with the defaults it read
filter_with_defaults(data, include, exclude, exclude_none, exclude_defaults, defaults) ==
    LET Verdict(kv) == item_verdict(kv, include, exclude, exclude_none, exclude_defaults, defaults)
        Kept(kv) == Verdict(kv) = "keep"
    IN  IF \E i \in 1..Len(data.a) : Verdict(data.a[i]) = "raise" THEN Err("TypeError")
        ELSE Dict(SelectSeq(data.a, Kept))

\* SchemaAdapter._filter_dict
filter_dict(data, include, exclude, exclude_none, exclude_defaults, original_value, exposure) ==
    filter_with_defaults(data, include, exclude, exclude_none, exclude_defaults,
                         filter_defaults(exclude_defaults, original_value, exposure))

\* An override of None read as no override: the lookup by None instead of by
\* a sentinel (a mutant of effective_option).
effective_option_NoneAsAbsent(override, stored, default) ==
    IF override # Unset /\ override # NoneValue THEN override
    ELSE IF stored # Unset THEN stored ELSE default

\* override_kwargs.get(key, self.export_kwargs.get(key, default)); for include
\* and exclude an override of None counts as passed.
effective_option(override, stored, default) ==
    IF override # Unset THEN override ELSE IF stored # Unset THEN stored ELSE default

\* dump_python after msgspec.to_builtins: only a dict is filtered.
filtered_result(a, result, ov, value, exposure) ==
    IF result.k # "dict" THEN result
    ELSE filter_dict(result,
                     effective_option(ov.include, a.export_kwargs.include, NoneValue),
                     effective_option(ov.exclude, a.export_kwargs.exclude, NoneValue),
                     effective_option(ov.exclude_none, a.export_kwargs.exclude_none, PyFalse),
                     effective_option(ov.exclude_defaults, a.export_kwargs.exclude_defaults, PyFalse),
                     value, exposure)

\* SchemaAdapter.dump_python(value, **override_kwargs)
dump_python(a, value, ov, exposure) ==
    IF value = NoneValue THEN NoneValue
    ELSE filtered_result(a, to_builtins_enc_hook(value, a.export_kwargs.enc_hook),
                         ov, value, exposure)

\* msgspec.json.encode of a dumped value
json_encode(v) == IF v.k = "err" THEN v ELSE Mk("bytes", "json", <<v>>)

\* SchemaAdapter.dump_json(value, **override_kwargs)
dump_json(a, value, ov, exposure) ==
    IF value = NoneValue THEN Mk("bytes", "null", <<>>)
    ELSE json_encode(dump_python(a, value, ov, exposure))

\* The values dumped: FilterSchema instances (one with b None and c at its
\* default), a struct whose default is the text of its member's name, raw
\* data that is not a struct, and None.
DumpValues ==
    {Struct("FilterSchema", <<Str("x"), NoneValue, PyInt("2")>>),
     Struct("FilterSchema", <<Str("x"), PyInt("1"), PyInt("0")>>),
     Struct("TaggedSchema", <<Str("kind"), PyInt("0")>>),
     Dict(<<KV("c", PyInt("2")), KV("a", NoneValue)>>),
     NoneValue}

IncludeOptions == {Unset, NoneValue, KeySet(<<>>), KeySet(<<"a", "c">>)}

ExcludeOptions == {Unset, KeySet(<<"c">>)}

FlagOptions == {Unset, PyTrue}

\* The override_kwargs of a dump_python call: none, the pair deconstruct
\* passes, exclude_defaults alone, sets for include and exclude, and the two
\* flags switched on and off.
DumpOverrides ==
    {NoExportKwargs, ExportKwargs(Unset, NoneValue, NoneValue, Unset, Unset),
     ExportKwargs(Unset, Unset, Unset, Unset, PyTrue),
     ExportKwargs(Unset, KeySet(<<"a", "b">>), KeySet(<<"a">>), Unset, Unset),
     ExportKwargs(Unset, Unset, Unset, PyTrue, PyFalse),
     ExportKwargs(Unset, Unset, Unset, PyFalse, Unset)}

Exposures == {"absent", "tuple"}

\* ------------------------------------------------------------------------
\* The model field (fields.py)
\* ------------------------------------------------------------------------

\* callable(default): the callable defaults of the model are the classes
\* list and dict.
Callable(v) == v.k = "class"

\* default()
CallDefault(v) == IF v.o = "dict" THEN Dict(<<>>) ELSE List(<<>>)

\* MsgspecSchemaField.__init__: the encoder defaults to DjangoJSONEncoder, the
\* export options are taken out of kwargs, and the adapter is constructed
\* with no owner and the attribute name the field has then (None).  default
\* is Unset for NOT_PROVIDED.
MsgspecSchemaField(schema, default, null, json_encoder, export_kwargs) ==
    [k |-> "field", schema |-> BaseContainer_unwrap(schema), default |-> default, null |-> null,
     encoder |-> IF json_encoder = Unset THEN Cls("DjangoJSONEncoder") ELSE json_encoder,
     name |-> NoneName, export_kwargs |-> export_kwargs,
     adapter |-> SchemaAdapter(schema, NoneName, NoneName, null, export_kwargs)]

\* contribute_to_class(cls, name): binds the adapter, then the field takes its name.
contribute_to_class(f, cls, name) ==
    [f EXCEPT !.adapter = bind(f.adapter, cls, name), !.name = name]

\* The except clause of _prepare_raw_value: after ValidationError or
\* ImproperlyConfiguredSchema the value is dumped as it was passed.
validated_or_raw(r, value) ==
    IF r.v.k = "err" /\ r.v.o \in {"ValidationError", "ImproperlyConfiguredSchema"}
    THEN Res(value, r.a, r.calls)
    ELSE r

\* value = self.adapter.dump_python(value, **dump_kwargs), given the outcome r
\* of the validation.
dumped(r, dump_kwargs, exposure) ==
    IF r.v.k = "err" THEN r
    ELSE Res(dump_python(r.a, r.v, dump_kwargs, exposure), r.a, r.calls)

\* _prepare_raw_value for a value that is not a query expression.
prepare_raw_value(f, value, dump_kwargs, exposure, g) ==
    dumped(validated_or_raw(validate_python(f.adapter, value, NoneValue, g), value),
           dump_kwargs, exposure)

\* The keyword arguments deconstruct returns; Unset for a key that is absent.
Kwargs(default, json_encoder, null, schema, export_kwargs) ==
    [k |-> "kwargs", default |-> default, encoder |-> json_encoder, null |-> null,
     schema |-> schema, export_kwargs |-> export_kwargs]

\* The dump_kwargs deconstruct passes: include=None, exclude=None.
DeconstructDumpKwargs == ExportKwargs(Unset, NoneValue, NoneValue, Unset, Unset)

\* deconstruct, the default: a default that is provided and not callable is
\* prepared as a raw value.
deconstructed_default(f, exposure, g) ==
    IF f.default = Unset \/ Callable(f.default) THEN Res(f.default, f.adapter, <<>>)
    ELSE prepare_raw_value(f, f.default, DeconstructDumpKwargs, exposure, g)

\* try: schema = self.adapter.prepared_schema; except ImproperlyConfiguredSchema: pass
schema_or_original(f, p) == IF IsConfigError(p.v) THEN Res(f.schema, p.a, <<>>) ELSE p

\* deconstruct, the schema: the prepared schema when the field has none of its
\* own (None, a ForwardRef or a string) and the adapter is bound.
deconstructed_schema(f, a, g) ==
    IF (f.schema = NoneValue \/ f.schema.k \in {"fwd", "str"}) /\ is_bound(a)
    THEN schema_or_original(f, prepared_schema(a, g))
    ELSE Res(f.schema, a, <<>>)

\* What deconstruct gives back: the kwargs or the exception, and the field as
\* the call leaves it.
FieldRes(v, f) == [v |-> v, f |-> f]

\* The schema passed on as deconstruct holds it, the wrapping dropped (a
\* mutant of deconstructed_kwargs).
deconstructed_kwargs_RawSchema(f, d, s) ==
    IF d.v.k = "err" THEN FieldRes(d.v, [f EXCEPT !.adapter = d.a])
    ELSE IF s.v.k = "err" THEN FieldRes(s.v, [f EXCEPT !.adapter = s.a])
    ELSE FieldRes(Kwargs(d.v, f.encoder, IF f.null = PyTrue THEN PyTrue ELSE Unset,
                         s.v, f.export_kwargs),
                  [f EXCEPT !.adapter = s.a])

\* deconstruct, the kwargs: those of JSONField.deconstruct (default if
\* provided, null if set, encoder), the wrapped schema, the export options.
deconstructed_kwargs(f, d, s) ==
    IF d.v.k = "err" THEN FieldRes(d.v, [f EXCEPT !.adapter = d.a])
    ELSE IF s.v.k = "err" THEN FieldRes(s.v, [f EXCEPT !.adapter = s.a])
    ELSE FieldRes(Kwargs(d.v, f.encoder, IF f.null = PyTrue THEN PyTrue ELSE Unset,
                         wrap(s.v), f.export_kwargs),
                  [f EXCEPT !.adapter = s.a])

deconstruct_schema(f, d, g) == deconstructed_kwargs(f, d, deconstructed_schema(f, d.a, g))

\* MsgspecSchemaField.deconstruct
deconstruct(f, exposure, g) == deconstruct_schema(f, deconstructed_default(f, exposure, g), g)

\* MsgspecSchemaField(*args, **kwargs) from deconstructed kwargs
field_from_kwargs(kw) ==
    MsgspecSchemaField(IF kw.schema = Unset THEN NoneValue ELSE kw.schema, kw.default,
                       IF kw.null = Unset THEN PyFalse ELSE kw.null, kw.encoder,
                       kw.export_kwargs)

\* sorted(kwargs.items()) as the migration writer goes through them
kwargs_items(kw) ==
    SelectSeq(<<Mk("kw", "default", <<kw.default>>),
                Mk("kw", "encoder", <<kw.encoder>>),
                Mk("kw", "exclude", <<kw.export_kwargs.exclude>>),
                Mk("kw", "exclude_defaults", <<kw.export_kwargs.exclude_defaults>>),
                Mk("kw", "exclude_none", <<kw.export_kwargs.exclude_none>>),
                Mk("kw", "include", <<kw.export_kwargs.include>>),
                Mk("kw", "null", <<kw.null>>),
                Mk("kw", "schema", <<kw.schema>>),
                Mk("kw", "strict", <<kw.export_kwargs.strict>>)>>,
              LAMBDA x : x.a[1] # Unset)

\* django ModelFieldSerializer: path(name=value, ...) given the sorted kwargs
\* and their serialized values.
ModelFieldSerializer(items, parts) ==
    IF ~ItemsOk(parts) THEN SerFail
    ELSE Ser(<<"django_msgspec_field.fields", ".", "MsgspecSchemaField", "(">>
                \o JoinComma([i \in 1..Len(parts) |-> <<items[i].o, "=">> \o parts[i].text])
                \o <<")">>,
             {"django_msgspec_field.fields"} \cup ItemImports(parts))

serialized_items(items) ==
    ModelFieldSerializer(items, [i \in 1..Len(items) |-> Serialize(items[i].a[1])])

\* MigrationWriter.serialize(field), given what field.deconstruct() returned.
serialize_kwargs(kw) == IF kw.k = "err" THEN SerFail ELSE serialized_items(kwargs_items(kw))

\* kwargs[name], Unset when absent
KwGet(kws, name) ==
    IF \E i \in 1..Len(kws) : kws[i].o = name
    THEN kws[CHOOSE i \in 1..Len(kws) : kws[i].o = name].a[1]
    ELSE Unset

\* The field the evaluated source text constructs.
field_from_call(kws) ==
    field_from_kwargs(Kwargs(KwGet(kws, "default"), KwGet(kws, "encoder"), KwGet(kws, "null"),
                             KwGet(kws, "schema"),
                             ExportKwargs(KwGet(kws, "strict"), KwGet(kws, "include"),
                                          KwGet(kws, "exclude"), KwGet(kws, "exclude_none"),
                                          KwGet(kws, "exclude_defaults"))))

has_default(f) == f.default # Unset

\* django Field.get_default for a JSONField: None without a default, the
\* result of the call for a callable default.
django_get_default(f) ==
    IF ~has_default(f) THEN NoneValue
    ELSE IF Callable(f.default) THEN CallDefault(f.default)
    ELSE f.default

\* MsgspecSchemaField.get_default
get_default(f, g) ==
    IF has_default(f) THEN validate_python(f.adapter, django_get_default(f), NoneValue, g)
    ELSE Res(django_get_default(f), f.adapter, <<>>)

\* The fields of the model: schemas, defaults, null and export options.
FieldSchemas ==
    {Cls("InnerSchema"), Cls("FilterSchema"), Mk("ga", "list", <<Cls("InnerSchema")>>),
     Mk("tga", "list", <<Cls("FilterSchema")>>),
     SubscriptUnion(<<Cls("FilterSchema"), NoneValue>>),
     PyOr(Cls("InnerSchema"), NoneValue), NoneValue}

FieldDefaults ==
    {Unset, NoneValue, Cls("list"),
     Struct("InnerSchema", <<Str(""), List(<<>>), PyInt("1")>>),
     Dict(<<KV("stub_str", Str("abc")), KV("stub_list", List(<<Date("2022-07-01")>>))>>),
     Struct("FilterSchema", <<Str("x"), NoneValue, PyInt("2")>>),
     List(<<Struct("FilterSchema", <<Str("x"), PyInt("1"), PyInt("0")>>)>>)}

FieldExportKwargs ==
    {NoExportKwargs,
     ExportKwargs(Unset, KeySet(<<"a", "stub_int", "stub_str">>), Unset, Unset, Unset),
     ExportKwargs(Unset, Unset, KeySet(<<"stub_list">>), Unset, Unset),
     ExportKwargs(Unset, Unset, Unset, PyTrue, Unset)}

\* The (cls, name) a field is contributed with.
FieldOwners == {<<"SampleForwardRefModel", "annotated_field">>}

NoField == [k |-> "unset"]

\* ------------------------------------------------------------------------
\* conf.py: the settings object
\* ------------------------------------------------------------------------
\* A function object is Mk("function", name, <<>>).  The host configuration
\* is Unconfigured (reading django.conf.settings raises) or Configured(d),
\* d the value of settings.DJANGO_MSGSPEC_FIELD, Unset when the attribute
\* is absent.  The settings object is a record: _user_settings, _cached_attrs
\* and attrs, the instance attributes that setattr stored.

Fn(n) == Mk("function", n, <<>>)

Unconfigured == Mk("unconfigured", "", <<>>)

Configured(d) == Mk("configured", "", <<d>>)

DEFAULTS == Dict(<<KV("ENC_HOOK", NoneValue), KV("DEC_HOOK", NoneValue)>>)

IMPORT_STRINGS == {"ENC_HOOK", "DEC_HOOK"}

NoUserSettings == NoneValue

\* MsgspecFieldSettings(user_settings): user_settings or {}
MsgspecFieldSettings(user_settings) ==
    [user_settings |-> IF user_settings = NoneValue THEN Dict(<<>>) ELSE user_settings,
     cached_attrs |-> {},
     attrs |-> <<>>]

\* _load_user_settings: getattr(settings, "DJANGO_MSGSPEC_FIELD", {}), {} on
\* any exception.
load_user_settings(host) ==
    IF host = Unconfigured THEN Dict(<<>>)
    ELSE IF host.a[1] = Unset THEN Dict(<<>>)
    ELSE host.a[1]

\* django.utils.module_loading.import_string(dotted_path)
import_string(dotted_path) ==
    CASE dotted_path = "tests.test_conf.custom_enc_hook" -> Fn("custom_enc_hook")
      [] dotted_path = "tests.test_conf.custom_dec_hook" -> Fn("custom_dec_hook")
      [] dotted_path = "nonexistent.module.function" ->
            Mk("err", "ModuleNotFoundError", <<Str("No module named 'nonexistent'")>>)
      [] OTHER ->
            Mk("err", "ImportError", <<Str(dotted_path), Str(" doesn't look like a module path")>>)

\* The except clause of import_from_string: the message is the f-string's
\* pieces in order.
import_error(value, setting_name, e) ==
    Mk("err", "ImportError",
       <<Str("Could not import '"), value, Str("' for setting '"), Str(setting_name),
         Str("'. "), Str(e.o), Str(": ")>> \o e.a \o <<Str(".")>>)

\* import_from_string after import_string returned or raised r.
imported_or_error(value, setting_name, r) ==
    IF r.k = "err" THEN import_error(value, setting_name, r) ELSE r

\* import_from_string(value, setting_name)
import_from_string(value, setting_name) ==
    IF value.k = "str" THEN imported_or_error(value, setting_name, import_string(value.o))
    ELSE value

\* The user_settings property: a falsy _user_settings is loaded from the host.
user_settings(s, host) ==
    IF s.user_settings.a = <<>> THEN load_user_settings(host) ELSE s.user_settings

\* try: val = self.user_settings[attr]  except KeyError: val = self.defaults[attr]
setting_value(us, attr) ==
    IF HasKey(us.a, attr) THEN GetKey(us.a, attr) ELSE GetKey(DEFAULTS.a, attr)

\* The result of a read: the settings object it leaves, the value or the
\* exception, and the calls it made.
Read(s, v, calls) == [s |-> s, v |-> v, calls |-> calls]

\* Names of the calls a settings read makes besides __getattr__.
ReadCalls(s, val) ==
    (IF s.user_settings.a = <<>> THEN <<"_load_user_settings">> ELSE <<>>)
    \o (IF val.k = "str" THEN <<"import_string">> ELSE <<>>)

\* The key cached whether or not its value resolved (a mutant of
\* cache_or_raise).
cache_or_raise_CacheFailed(s, us, attr, val, calls) ==
    Read([s EXCEPT !.user_settings = us,
                   !.cached_attrs = @ \cup {attr},
                   !.attrs = Append(@, KV(attr, val))],
         val, calls)

\* The tail of __getattr__: cache the resolved value, or raise.
cache_or_raise(s, us, attr, val, calls) ==
    IF val.k = "err" THEN Read([s EXCEPT !.user_settings = us], val, calls)
    ELSE Read([s EXCEPT !.user_settings = us,
                        !.cached_attrs = @ \cup {attr},
                        !.attrs = Append(@, KV(attr, val))],
              val, calls)

\* __getattr__ after the user value or the default was taken.
resolve_attr(s, us, attr, val) ==
    cache_or_raise(s, us, attr,
                   IF attr \in IMPORT_STRINGS THEN import_from_string(val, attr) ELSE val,
                   <<"__getattr__">> \o ReadCalls(s, val))

\* MsgspecFieldSettings.__getattr__(attr)
settings_getattr(s, attr, host) ==
    IF ~HasKey(DEFAULTS.a, attr) THEN
        Read(s, Mk("err", "AttributeError", <<Str("Invalid setting: '"), Str(attr), Str("'")>>),
             <<"__getattr__">>)
    ELSE resolve_attr(s, user_settings(s, host), attr, setting_value(user_settings(s, host), attr))

\* The properties enc_hook and dec_hook read ENC_HOOK and DEC_HOOK.
PropertyTarget(attr) ==
    CASE attr = "enc_hook" -> "ENC_HOOK"
      [] attr = "dec_hook" -> "DEC_HOOK"
      [] OTHER -> attr

\* getattr(settings, attr): an instance attribute is found by the normal
\* lookup; __getattr__ is called only when there is none.
read_setting(s, attr, host) ==
    IF HasKey(s.attrs, PropertyTarget(attr))
        THEN Read(s, GetKey(s.attrs, PropertyTarget(attr)), <<>>)
    ELSE settings_getattr(s, PropertyTarget(attr), host)

\* The cache cleared and the loaded user settings kept (a mutant of reload).
reload_KeepUserSettings(s) ==
    [user_settings |-> s.user_settings,
     cached_attrs |-> {},
     attrs |-> SelectSeq(s.attrs, LAMBDA kv : kv.o \notin s.cached_attrs)]

\* MsgspecFieldSettings.reload()
reload(s) ==
    [user_settings |-> Dict(<<>>),
     cached_attrs |-> {},
     attrs |-> SelectSeq(s.attrs, LAMBDA kv : kv.o \notin s.cached_attrs)]

\* get_settings() after cache_clear(): a new settings object.
get_settings == MsgspecFieldSettings(NoUserSettings)

\* ------------------------------------------------------------------------
\* State
\* ------------------------------------------------------------------------

tvars == <<raw_type, wrapped_type, unwrapped_type, serialized, evaluated>>

avars == <<adapter, module_globals, declared_since_bind, outcome>>

fvars == <<model_field, reconstructed_field, model_instance>>

svars == <<django_settings, msgspec_field_settings>>

vars == <<tvars, avars, fvars, svars>>

\* No type expression is under test.
TypesIdle ==
    /\ raw_type = Unset
    /\ wrapped_type = Unset
    /\ unwrapped_type = Unset
    /\ serialized = SerFail
    /\ evaluated = Unset

\* No field is under test.
FieldIdle ==
    /\ model_field = NoField
    /\ reconstructed_field = NoField
    /\ model_instance = Unset

\* No settings are under test: Django is not configured and the settings
\* object is as constructed.
SettingsIdle ==
    /\ django_settings = Unconfigured
    /\ msgspec_field_settings = MsgspecFieldSettings(NoUserSettings)

\* No adapter is under test.
AdapterIdle ==
    /\ adapter = Unset
    /\ module_globals = <<>>
    /\ declared_since_bind = FALSE
    /\ outcome = NoOutcome
    /\ FieldIdle

TypesInit ==
    /\ raw_type \in TypeUniverse
    /\ wrapped_type = Unset
    /\ unwrapped_type = Unset
    /\ serialized = SerFail
    /\ evaluated = Unset
    /\ AdapterIdle
    /\ SettingsIdle

\* wrapped_type = GenericContainer.wrap(raw_type)
Wrap ==
    /\ wrapped_type = Unset
    /\ wrapped_type' = wrap(raw_type)
    /\ UNCHANGED <<raw_type, unwrapped_type, serialized, evaluated, avars, fvars, svars>>

\* GenericContainer.unwrap(wrapped_type)
Unwrap ==
    /\ wrapped_type # Unset
    /\ unwrapped_type = Unset
    /\ unwrapped_type' = unwrap(wrapped_type)
    /\ UNCHANGED <<raw_type, wrapped_type, serialized, evaluated, avars, fvars, svars>>

\* expression, imports = MigrationWriter.serialize(wrapped_type)
SerializeWrapped ==
    /\ wrapped_type # Unset
    /\ serialized = SerFail
    /\ Serialize(wrapped_type).ok
    /\ serialized' = Serialize(wrapped_type)
    /\ UNCHANGED <<raw_type, wrapped_type, unwrapped_type, evaluated, avars, fvars, svars>>

\* eval(expression) with the imported modules in scope
EvaluateText ==
    /\ serialized.ok
    /\ evaluated = Unset
    /\ evaluated' = Evaluate(serialized.text, serialized.imports)
    /\ UNCHANGED <<raw_type, wrapped_type, unwrapped_type, serialized, avars, fvars, svars>>

TypesNext == Wrap \/ Unwrap \/ SerializeWrapped \/ EvaluateText

SpecTypes == TypesInit /\ [][TypesNext]_vars

\* The adapter is constructed unbound, as MsgspecSchemaField.__init__ and
\* from_type construct it; the module has not declared SampleSchema yet.
AdapterInit ==
    /\ adapter \in {SchemaAdapter(s, NoneName, NoneName, o[1], ExportKwargs(o[2], Unset, Unset, Unset, Unset)) :
                       s \in AdapterSchemas, o \in AdapterOptions}
    /\ module_globals = <<>>
    /\ declared_since_bind = FALSE
    /\ outcome = NoOutcome
    /\ TypesIdle
    /\ FieldIdle
    /\ SettingsIdle

\* The module executes the declaration of SampleSchema.
Declare ==
    \E v \in GlobalValues :
        /\ module_globals # <<KV("SampleSchema", v)>>
        /\ module_globals' = <<KV("SampleSchema", v)>>
        /\ declared_since_bind' = TRUE
        /\ UNCHANGED <<adapter, outcome, tvars, fvars, svars>>

\* The step an operation takes: the adapter it leaves and its outcome.
Step(op, args, r) ==
    /\ adapter' = r.a
    /\ outcome' = Out(op, args, r.v, r.calls)
    /\ UNCHANGED <<module_globals, declared_since_bind, tvars, fvars, svars>>

\* adapter.bind(parent_type, attname); the outcome also notes which of the
\* three cached values the adapter held when bind was called.
Bind ==
    \E b \in Bindings :
        /\ adapter' = bind(adapter, b[1], b[2])
        /\ outcome' = Out("bind",
                          <<Str(b[1]), Str(b[2]), PyBool(adapter.prepared_schema # Unset),
                            PyBool(adapter.decoder # Unset), PyBool(adapter.encoder # Unset)>>,
                          NoneValue, <<>>)
        /\ declared_since_bind' = FALSE
        /\ UNCHANGED <<module_globals, tvars, fvars, svars>>

AccessPreparedSchema == Step("prepared_schema", <<>>, prepared_schema(adapter, module_globals))

AccessEncoder == Step("_encoder", <<>>, encoder(adapter))

ValidateSchema == Step("validate_schema", <<>>, validate_schema(adapter, module_globals))

ValidatePython ==
    \E value \in PythonInputs, strict \in StrictArgs :
        Step("validate_python", <<value, strict>>,
             validate_python(adapter, value, strict, module_globals))

ValidateJson ==
    \E text \in JsonTexts :
        Step("validate_json", <<Str(text), NoneValue>>,
             validate_json(adapter, text, NoneValue, module_globals))

JsonSchema == Step("json_schema", <<>>, json_schema(adapter, module_globals))

GetDefaultValue == Step("get_default_value", <<>>, get_default_value(adapter, module_globals))

\* adapter == other
Eq ==
    \E other \in OtherAdapters :
        Step("__eq__", <<Str(other.parent_type), Str(other.attname), other.schema>>,
             eq(adapter, other, module_globals))

AdapterNext ==
    \/ Declare
    \/ Bind
    \/ AccessPreparedSchema
    \/ AccessEncoder
    \/ ValidateSchema
    \/ ValidatePython
    \/ ValidateJson
    \/ JsonSchema
    \/ GetDefaultValue
    \/ Eq

SpecAdapter == AdapterInit /\ [][AdapterNext]_vars

\* An adapter with export options, as a field with include / exclude /
\* exclude_none / exclude_defaults constructs it.
DumpInit ==
    /\ adapter \in {SchemaAdapter(Cls("FilterSchema"), NoneName, NoneName, NoneValue,
                                  ExportKwargs(Unset, i, e, n, d)) :
                       i \in IncludeOptions, e \in ExcludeOptions,
                       n \in FlagOptions, d \in FlagOptions}
    /\ module_globals = <<>>
    /\ declared_since_bind = FALSE
    /\ outcome = NoOutcome
    /\ TypesIdle
    /\ FieldIdle
    /\ SettingsIdle

\* adapter.dump_python(value, **override_kwargs)
DumpPython ==
    \E value \in DumpValues, ov \in DumpOverrides, exposure \in Exposures :
        /\ outcome' = Out("dump_python", <<value, ov, exposure>>,
                          dump_python(adapter, value, ov, exposure), <<>>)
        /\ UNCHANGED <<adapter, module_globals, declared_since_bind, tvars, fvars, svars>>

\* adapter.dump_json(value, **override_kwargs)
DumpJson ==
    \E value \in DumpValues, ov \in DumpOverrides, exposure \in Exposures :
        /\ outcome' = Out("dump_json", <<value, ov, exposure>>,
                          dump_json(adapter, value, ov, exposure), <<>>)
        /\ UNCHANGED <<adapter, module_globals, declared_since_bind, tvars, fvars, svars>>

DumpNext == DumpPython \/ DumpJson

SpecDump == DumpInit /\ [][DumpNext]_vars

\* A field is constructed in a module that has declared SampleSchema.
FieldInit ==
    /\ model_field \in {MsgspecSchemaField(s, d, n, Unset, e) :
                     s \in FieldSchemas, d \in FieldDefaults, n \in {PyTrue, PyFalse},
                     e \in FieldExportKwargs}
    /\ reconstructed_field = NoField
    /\ model_instance = Unset
    /\ adapter = Unset
    /\ module_globals = <<KV("SampleSchema", Cls("SampleSchema"))>>
    /\ declared_since_bind = FALSE
    /\ outcome = NoOutcome
    /\ TypesIdle
    /\ SettingsIdle

\* The model class takes the field: field.contribute_to_class(cls, name)
ContributeToClass ==
    \E o \in FieldOwners :
        /\ model_field.name = NoneName
        /\ model_field' = contribute_to_class(model_field, o[1], o[2])
        /\ outcome' = Out("contribute_to_class", <<Str(o[1]), Str(o[2])>>, NoneValue, <<>>)
        /\ UNCHANGED <<reconstructed_field, adapter, module_globals, declared_since_bind, tvars, svars, model_instance>>

\* The step of deconstruct: the field it leaves and the kwargs it returns.
DeconstructStep(exposure, r) ==
    /\ model_field' = r.f
    /\ outcome' = Out("deconstruct", <<Str(exposure)>>, r.v, <<>>)
    /\ UNCHANGED <<reconstructed_field, adapter, module_globals, declared_since_bind, tvars, svars, model_instance>>

\* _, _, args, kwargs = field.deconstruct()
Deconstruct ==
    \E exposure \in Exposures : DeconstructStep(exposure, deconstruct(model_field, exposure, module_globals))

\* reconstructed_field = MsgspecSchemaField(*args, **kwargs)
ReconstructField ==
    /\ outcome.op = "deconstruct"
    /\ outcome.v.k = "kwargs"
    /\ reconstructed_field' = field_from_kwargs(outcome.v)
    /\ outcome' = Out("reconstruct", <<Str("kwargs")>>, NoneValue, <<>>)
    /\ UNCHANGED <<model_field, adapter, module_globals, declared_since_bind, tvars, svars, model_instance>>

\* The step of MigrationWriter.serialize(field): the text and its imports.
SerializeStep(exposure, r) ==
    /\ model_field' = r.f
    /\ serialized' = serialize_kwargs(r.v)
    /\ outcome' = Out("serialize", <<Str(exposure)>>, r.v, <<>>)
    /\ UNCHANGED <<reconstructed_field, adapter, module_globals, declared_since_bind,
                   raw_type, wrapped_type, unwrapped_type, evaluated, svars, model_instance>>

\* MigrationWriter.serialize(field)
SerializeField ==
    \E exposure \in Exposures : SerializeStep(exposure, deconstruct(model_field, exposure, module_globals))

\* The field an evaluated value is: NoField when the text did not evaluate to a field.
evaluated_field(v) == IF v.k = "newfield" THEN field_from_call(v.a) ELSE NoField

\* reconstructed_field = eval(text) with the imported modules in scope
EvaluateField ==
    /\ outcome.op = "serialize"
    /\ serialized.ok
    /\ evaluated' = Evaluate(serialized.text, serialized.imports)
    /\ reconstructed_field' = evaluated_field(evaluated')
    /\ outcome' = Out("reconstruct", <<Str("text")>>, NoneValue, <<>>)
    /\ UNCHANGED <<model_field, adapter, module_globals, declared_since_bind,
                   raw_type, wrapped_type, unwrapped_type, serialized, svars, model_instance>>

\* The step of field.get_default(): the adapter keeps what it resolved.
GetDefaultStep(r) ==
    /\ model_field' = [model_field EXCEPT !.adapter = r.a]
    /\ outcome' = Out("get_default", <<Str("field")>>, r.v, r.calls)
    /\ UNCHANGED <<reconstructed_field, adapter, module_globals, declared_since_bind, tvars, svars, model_instance>>

\* field.get_default()
GetDefault == GetDefaultStep(get_default(model_field, module_globals))

GetReconstructedDefaultStep(r) ==
    /\ reconstructed_field' = [reconstructed_field EXCEPT !.adapter = r.a]
    /\ outcome' = Out("get_default", <<Str("reconstructed_field")>>, r.v, r.calls)
    /\ UNCHANGED <<model_field, adapter, module_globals, declared_since_bind, tvars, svars, model_instance>>

\* reconstructed_field.get_default()
GetReconstructedDefault ==
    /\ reconstructed_field # NoField
    /\ GetReconstructedDefaultStep(get_default(reconstructed_field, module_globals))

FieldNext ==
    \/ ContributeToClass
    \/ Deconstruct
    \/ ReconstructField
    \/ SerializeField
    \/ EvaluateField
    \/ GetDefault
    \/ GetReconstructedDefault

SpecField == FieldInit /\ [][FieldNext]_vars

\* ------------------------------------------------------------------------
\* C1
\* ------------------------------------------------------------------------

\* C1 as stated: for every generic type expression, unwrap(wrap(T)) == T, and
\* a value that is not a generic type expression passes through both unchanged.
C1_Original ==
    unwrapped_type # Unset =>
        /\ PyEq(unwrapped_type, raw_type)
        /\ ~IsGenericType(raw_type) => (wrapped_type = raw_type /\ unwrapped_type = raw_type)

\* The spellings wrap does not keep: a typing-module alias (typing.List[X],
\* bare typing.List) and a subscription without arguments (tuple[()]).
RECURSIVE HasLossySpelling(_)
HasLossySpelling(v) ==
    \/ v.k \in {"tga", "sga"}
    \/ (v.k = "ga" /\ v.a = <<>>)
    \/ \E i \in 1..Len(v.a) : HasLossySpelling(v.a[i])

\* C1, amended: unwrap(wrap(T)) == T for every generic type expression T
\* that holds no typing-module alias and no empty subscription; a typing alias
\* typing.List[X] of such an X comes back as the builtin alias list[X], which
\* is not equal to it; a value that is not a generic type expression passes
\* through wrap and unwrap unchanged.
C1_WrapUnwrap ==
    unwrapped_type # Unset =>
        /\ ~HasLossySpelling(raw_type) => PyEq(unwrapped_type, raw_type)
        /\ (raw_type.k = "tga" /\ \A i \in 1..Len(raw_type.a) : ~HasLossySpelling(raw_type.a[i]))
             => (unwrapped_type = Mk("ga", raw_type.o, raw_type.a)
                 /\ ~PyEq(unwrapped_type, raw_type))
        /\ ~IsGenericType(raw_type) => (wrapped_type = raw_type /\ unwrapped_type = raw_type)

\* A nested union inside a builtin generic has gone through wrap and unwrap.
C1_Witness ==
    /\ unwrapped_type # Unset
    /\ raw_type.k = "ga"
    /\ \E i \in 1..Len(raw_type.a) : raw_type.a[i].k = "union"
    /\ wrapped_type.k = "gc"

\* ------------------------------------------------------------------------
\* C2
\* ------------------------------------------------------------------------

\* Every wrapped type expression can be serialized.
SerializableWrapped == wrapped_type # Unset => Serialize(wrapped_type).ok

\* C2: evaluating the text the migration serializer produces for wrap(T),
\* with the modules it imports in scope, gives a value equal to wrap(T), and
\* that value also compares equal to the raw T.
C2_SerializeEvaluate ==
    /\ SerializableWrapped
    /\ evaluated # Unset =>
        /\ evaluated.k # "err"
        /\ PyEq(evaluated, wrapped_type)
        /\ PyEq(evaluated, raw_type)

\* The text of a container that holds a nested container and a one-element
\* argument tuple has been evaluated.
C2_Witness ==
    /\ evaluated # Unset
    /\ evaluated.k = "gc"
    /\ \E i \in 1..Len(evaluated.a) : evaluated.a[i].k = "gc" /\ Len(evaluated.a[i].a) = 1
    /\ raw_type.k = "tunion"
\* ------------------------------------------------------------------------
\* C4
\* ------------------------------------------------------------------------

\* An operation other than bind took this step (the module declared nothing).
OperationStep(ops) == outcome'.op \in ops /\ module_globals' = module_globals

ResolvingOperations ==
    {"prepared_schema", "_decoder", "validate_schema", "validate_python", "validate_json",
     "json_schema", "get_default_value", "__eq__"}

\* C4: bind(owner, name) sets the owner type and the attribute name and leaves
\* no cached resolved schema, decoder or encoder, whatever was cached before;
\* binding again with the same arguments changes nothing; a schema or a
\* decoder that gets cached after a bind is the one computed for the owner
\* and attribute now bound.
C4_BindClearsCaches ==
    [][/\ outcome'.op = "bind" =>
            /\ adapter'.parent_type = outcome'.args[1].o
            /\ adapter'.attname = outcome'.args[2].o
            /\ adapter'.prepared_schema = Unset
            /\ adapter'.decoder = Unset
            /\ adapter'.encoder = Unset
            /\ bind(adapter', adapter'.parent_type, adapter'.attname) = adapter'
       /\ (OperationStep(ResolvingOperations) /\ adapter'.prepared_schema # Unset) =>
            \E g \in {<<>>, module_globals} :
                LET fresh == SchemaAdapter(adapter'.schema, adapter'.parent_type, adapter'.attname,
                                           adapter'.allow_null, adapter'.export_kwargs)
                IN  adapter'.prepared_schema = prepare_schema(fresh, g)
       /\ (OperationStep(ResolvingOperations) /\ adapter'.decoder # Unset) =>
            adapter'.decoder = Decoder(adapter'.prepared_schema, StoredStrict(adapter'))
      ]_vars

\* bind was called on an adapter holding all three cached values and bound it
\* to another owner.
C4_Witness ==
    /\ outcome.op = "bind"
    /\ outcome.args[3] = PyTrue /\ outcome.args[4] = PyTrue /\ outcome.args[5] = PyTrue
    /\ adapter.parent_type = "SampleForwardRefModel"
    /\ adapter.attname = "annotated_field"
    /\ adapter.prepared_schema = Unset

\* ------------------------------------------------------------------------
\* C5
\* ------------------------------------------------------------------------

\* The schema the adapter was given: the explicit one, else the owner's own
\* annotation of the attribute (None when there is none).
C5_GivenSchema(a) ==
    IF a.schema # NoneValue THEN a.schema
    ELSE IF HasKey(Annotations(a.parent_type), a.attname)
        THEN GetKey(Annotations(a.parent_type), a.attname)
    ELSE NoneValue

\* The value a name has for class cls: the class's own member, else the
\* module's global, else nothing (Unset).
C5_NameValue(cls, name, g) ==
    IF HasKey(ClassMembers(cls), name) THEN GetKey(ClassMembers(cls), name)
    ELSE IF HasKey(g, name) THEN GetKey(g, name)
    ELSE Unset

\* C5: when an adapter bound to class C, whose schema (explicit or from C's
\* annotation) is a string or forward reference naming N, resolves for the
\* first time, the schema it caches is the value N has among C's own members,
\* or else in the module's globals as they stand at that access (wrapped in
\* Optional when the adapter allows null).
C5_ForwardRefResolution ==
    [][(/\ OperationStep(ResolvingOperations)
        /\ adapter.prepared_schema = Unset
        /\ adapter'.prepared_schema # Unset
        /\ adapter.parent_type \in OwnerClasses
        /\ adapter.attname \in AttNames
        /\ C5_GivenSchema(adapter).k \in {"str", "fwd"}) =>
            LET v == C5_NameValue(adapter.parent_type, C5_GivenSchema(adapter).o, module_globals)
            IN  /\ v # Unset
                /\ adapter'.prepared_schema =
                       IF adapter.allow_null = PyTrue
                       THEN Mk("tunion", "Union", <<v, Cls("NoneType")>>)
                       ELSE v
      ]_vars

\* A field annotated "SampleSchema" was bound before the module declared
\* SampleSchema, and its first access after the declaration gave the struct.
C5_Witness ==
    /\ outcome.op = "validate_json"
    /\ adapter.schema = NoneValue
    /\ adapter.parent_type = "SampleForwardRefModel"
    /\ adapter.attname = "annotated_field"
    /\ declared_since_bind
    /\ adapter.prepared_schema = Cls("SampleSchema")
    /\ outcome.v = Struct("SampleSchema", <<PyInt("2")>>)

\* ------------------------------------------------------------------------
\* C6
\* ------------------------------------------------------------------------

\* The schema cannot be resolved: there is none (no explicit schema and the
\* adapter is unbound or its owner does not annotate the attribute), or it is
\* a string or forward reference whose name is in neither namespace.
C6_Unresolvable(a, g) ==
    LET bound == a.parent_type # NoneName /\ a.attname # NoneName
        given == IF bound THEN C5_GivenSchema(a) ELSE a.schema
    IN  \/ given = NoneValue
        \/ /\ given.k \in {"str", "fwd"}
           /\ given.o \notin PyBuiltins
           /\ \/ a.parent_type = NoneName
              \/ C5_NameValue(a.parent_type, given.o, g) = Unset

C6_Operations ==
    {"validate_schema", "validate_python", "validate_json", "json_schema",
     "get_default_value", "__eq__"}

\* C6: whenever the schema cannot be resolved, what the caller of
\* validate_schema, validate_python (past the null short-circuit),
\* validate_json, json_schema, get_default_value or == receives is
\* ImproperlyConfiguredSchema.
C6_ConfigurationError ==
    [][(/\ OperationStep(C6_Operations)
        /\ C6_Unresolvable(adapter, module_globals)
        /\ ~(outcome'.op = "validate_python" /\ outcome'.args[1] = NoneValue
             /\ adapter.allow_null = PyTrue)) =>
            (outcome'.v.k = "err" /\ outcome'.v.o = "ImproperlyConfiguredSchema")
      ]_vars

\* ------------------------------------------------------------------------
\* C7
\* ------------------------------------------------------------------------

\* Resolution ends with no schema: no explicit schema, and the adapter is not
\* bound or its owner does not annotate the attribute.
C7_NoSchema(a) ==
    /\ a.schema = NoneValue
    /\ \/ a.parent_type = NoneName
       \/ a.attname = NoneName
       \/ ~HasKey(Annotations(a.parent_type), a.attname)

\* C7: the configuration error raised when resolution ends with no schema
\* names the owner class and the attribute if both are set, and otherwise
\* says that the adapter was accessed before it was bound; validate_schema()
\* on an unbound adapter without schema raises the latter.
C7_ErrorMessage ==
    /\ (/\ outcome.op \in ResolvingOperations
        /\ outcome.v.k = "err"
        /\ C7_NoSchema(adapter)) =>
            /\ outcome.v.o = "ImproperlyConfiguredSchema"
            /\ outcome.v.a =
                 IF adapter.parent_type # NoneName /\ adapter.attname # NoneName
                 THEN <<Str("Annotation is not provided for " \o adapter.parent_type
                            \o "." \o adapter.attname)>>
                 ELSE <<Str("Cannot resolve the schema. The adapter is accessed before it was bound.")>>
    /\ (/\ outcome.op = "validate_schema"
        /\ adapter.schema = NoneValue
        /\ (adapter.parent_type = NoneName \/ adapter.attname = NoneName)) =>
            outcome.v = ErrMsg("ImproperlyConfiguredSchema",
                               "Cannot resolve the schema. The adapter is accessed before it was bound.")

\* validate_schema() ran on an adapter without schema that has an owner but
\* no attribute name, and raised the 'unbound' error.
C7_Witness ==
    /\ outcome.op = "validate_schema"
    /\ adapter.schema = NoneValue
    /\ adapter.parent_type = "NestedModel"
    /\ adapter.attname = NoneName
    /\ outcome.v.k = "err"

\* ------------------------------------------------------------------------
\* C8
\* ------------------------------------------------------------------------

\* C8: with allow_null true, validate_python(None) returns None and converts
\* nothing; with allow_null false or unset, None goes to the conversion like
\* any other value; a conversion runs with the strict argument when one is
\* given and with the stored strict option (False when absent) otherwise.
C8_NullShortCircuit ==
    outcome.op = "validate_python" =>
        LET value == outcome.args[1]
            strict == outcome.args[2]
            resolved == ~(outcome.v.k = "err" /\ outcome.v.o \in {"ImproperlyConfiguredSchema", "NameError"})
        IN  /\ (value = NoneValue /\ adapter.allow_null = PyTrue) =>
                (outcome.v = NoneValue /\ outcome.calls = <<>>)
            /\ (resolved /\ ~(value = NoneValue /\ adapter.allow_null = PyTrue)) =>
                /\ Len(outcome.calls) = 1
                /\ outcome.calls[1].a[1] = value
                /\ outcome.calls[1].a[2] = adapter.prepared_schema
                /\ outcome.calls[1].a[3] =
                     IF strict # NoneValue THEN strict
                     ELSE IF adapter.export_kwargs.strict = Unset THEN PyFalse
                     ELSE adapter.export_kwargs.strict

\* validate_python("1", strict=False) on an adapter for int that stores
\* strict=True converted the text to the integer.
C8_Witness ==
    /\ outcome.op = "validate_python"
    /\ outcome.args = <<Str("1"), PyFalse>>
    /\ adapter.export_kwargs.strict = PyTrue
    /\ adapter.prepared_schema = Cls("int")
    /\ outcome.v = PyInt("1")

\* ------------------------------------------------------------------------
\* C9
\* ------------------------------------------------------------------------

\* The option a dump_python call works with: the override if passed, else
\* the stored one, else the default.
C9_Option(override, stored, default) ==
    IF override # Unset THEN override ELSE IF stored # Unset THEN stored ELSE default

C9_ExcludeNone == C9_Option(outcome.args[2].exclude_none, adapter.export_kwargs.exclude_none, PyFalse)

C9_ExcludeDefaultsOption ==
    C9_Option(outcome.args[2].exclude_defaults, adapter.export_kwargs.exclude_defaults, PyFalse)

C9_Include == C9_Option(outcome.args[2].include, adapter.export_kwargs.include, NoneValue)

C9_Exclude == C9_Option(outcome.args[2].exclude, adapter.export_kwargs.exclude, NoneValue)

\* C9: with exclude_defaults set, dump_python of a struct drops every member
\* whose value equals the member's declared default; with exclude_none too,
\* the struct {a: "x", b: None, c: 2}, c declared with default 2, dumps to
\* exactly {a: "x"}.
C9_ExcludeDefaults ==
    (/\ outcome.op = "dump_python"
     /\ outcome.args[1].k = "struct"
     /\ C9_ExcludeDefaultsOption = PyTrue) =>
        LET value == outcome.args[1]
            fs == StructFields(value.o)
        IN  /\ outcome.v.k = "dict"
            /\ \A i \in 1..Len(fs) :
                   (fs[i].d # Unset /\ value.a[i] = fs[i].d) => ~HasKey(outcome.v.a, fs[i].n)
            /\ (/\ value = Struct("FilterSchema", <<Str("x"), NoneValue, PyInt("2")>>)
                /\ C9_ExcludeNone = PyTrue
                /\ ~NonEmpty(C9_Include)
                /\ ~NonEmpty(C9_Exclude)) =>
                   outcome.v = Dict(<<KV("a", Str("x"))>>)

\* ------------------------------------------------------------------------
\* C10
\* ------------------------------------------------------------------------

\* The declared default of a key of the dumped value: a struct member's
\* default; Unset for a required member and for data that is not a struct.
C10_DeclaredDefault(value, key) ==
    IF value.k # "struct" THEN Unset
    ELSE LET fs == StructFields(value.o)
         IN  IF \E i \in 1..Len(fs) : fs[i].n = key
             THEN fs[CHOOSE i \in 1..Len(fs) : fs[i].n = key].d
             ELSE Unset

\* The four conditions under which a key is kept.
C10_Keep(kv) ==
    /\ ~(C9_Exclude.k = "set" /\ InKeys(kv.o, C9_Exclude))
    /\ (~NonEmpty(C9_Include) \/ InKeys(kv.o, C9_Include))
    /\ ~(C9_ExcludeNone = PyTrue /\ kv.a[1] = NoneValue)
    /\ ~(C9_ExcludeDefaultsOption = PyTrue /\ kv.a[1] = C10_DeclaredDefault(outcome.args[1], kv.o))

\* C10: dump_python keeps a key of the converted mapping if and only if it is
\* not in exclude, include is empty or absent or contains it, its value is
\* not a None that exclude_none drops, and its value is not a declared
\* default that exclude_defaults drops; the kept keys come in the mapping's
\* order.
C10_KeepIff ==
    (/\ outcome.op = "dump_python"
     /\ to_builtins(outcome.args[1]).k = "dict") =>
        outcome.v = Dict(SelectSeq(to_builtins(outcome.args[1]).a, C10_Keep))

\* ------------------------------------------------------------------------
\* C3
\* ------------------------------------------------------------------------

\* _schemas_equivalent of the tests: equal, or generics of the same origin
\* with pairwise equivalent arguments (typing.List[X] and list[X]); two
\* typing.Union have the same origin, so their members are compared in order.
RECURSIVE schemas_equivalent(_, _)
schemas_equivalent(schema1, schema2) ==
    IF PyEq(schema1, schema2) THEN TRUE
    ELSE IF get_origin(schema1) # "None" /\ get_origin(schema1) = get_origin(schema2) THEN
        /\ Len(get_args(schema1)) = Len(get_args(schema2))
        /\ \A i \in 1..Len(get_args(schema1)) :
               schemas_equivalent(get_args(schema1)[i], get_args(schema2)[i])
    ELSE FALSE

\* The fields the claim is about: the schema is a struct, a generic of
\* structs or a union of a struct with None; the export options are among
\* include, exclude and exclude_none.
C3_InScope(f) ==
    /\ \/ IsStructClass(f.schema)
       \/ /\ f.schema.k \in {"ga", "tga"}
          /\ \A i \in 1..Len(f.schema.a) : IsStructClass(f.schema.a[i])
       \/ /\ f.schema.k \in {"tunion", "union"}
          /\ \A i \in 1..Len(f.schema.a) :
                 IsStructClass(f.schema.a[i]) \/ f.schema.a[i] = Cls("NoneType")
    /\ f.export_kwargs.strict = Unset
    /\ f.export_kwargs.exclude_defaults = Unset

\* C3: for a field whose schema is a struct, a generic of structs or a union
\* of a struct with None, with or without default, null, include, exclude and
\* exclude_none, deconstruct() returns kwargs, the migration writer's text
\* for the field evaluates to a field, and the field built from the kwargs
\* or from the text has a get_default() equal to the original's and a schema
\* equivalent to the original's.
C3_DeconstructRoundTrip ==
    (/\ C3_InScope(model_field)
     /\ get_default(model_field, module_globals).v.k # "err") =>
        /\ outcome.op \in {"deconstruct", "serialize"} => outcome.v.k = "kwargs"
        /\ outcome.op = "serialize" => serialized.ok
        /\ outcome.op = "reconstruct" => reconstructed_field # NoField
        /\ reconstructed_field # NoField =>
              /\ get_default(reconstructed_field, module_globals).v
                    = get_default(model_field, module_globals).v
              /\ schemas_equivalent(reconstructed_field.schema, model_field.schema)

\* ------------------------------------------------------------------------
\* C11
\* ------------------------------------------------------------------------

\* The options of a dump_python call taken key by key: the override where
\* one was passed (None included), the stored option elsewhere.
C11_Merged(override, stored) ==
    [key \in DOMAIN stored |-> IF override[key] # Unset THEN override[key] ELSE stored[key]]

\* C11: dump_python with overrides returns what an adapter storing the
\* overrides in place of its own options returns without overrides: each of
\* include, exclude, exclude_none and exclude_defaults comes from the call
\* when passed and from the adapter only when not passed; an include or
\* exclude passed as None switches that filter off even if the adapter
\* stores a set, and one passed as a set applies that set.
C11_OverridePrecedence ==
    outcome.op = "dump_python" =>
        /\ outcome.v = dump_python([adapter EXCEPT !.export_kwargs =
                                       C11_Merged(outcome.args[2], adapter.export_kwargs)],
                                   outcome.args[1], NoExportKwargs, outcome.args[3])
        /\ (C9_ExcludeDefaultsOption # PyTrue /\ to_builtins(outcome.args[1]).k = "dict") =>
               /\ outcome.v.k = "dict"
               /\ \A i \in 1..Len(to_builtins(outcome.args[1]).a) :
                      LET kv == to_builtins(outcome.args[1]).a[i]
                      IN  HasKey(outcome.v.a, kv.o) <=>
                             /\ ~(C9_Exclude.k = "set" /\ InKeys(kv.o, C9_Exclude))
                             /\ (~NonEmpty(C9_Include) \/ InKeys(kv.o, C9_Include))
                             /\ ~(C9_ExcludeNone = PyTrue /\ kv.a[1] = NoneValue)

\* An include passed as None over a stored include set: a key outside the
\* stored set is dumped.
C11_Witness ==
    /\ outcome.op = "dump_python"
    /\ adapter.export_kwargs.include = KeySet(<<"a", "c">>)
    /\ outcome.args[2].include = NoneValue
    /\ outcome.args[1] = Struct("FilterSchema", <<Str("x"), PyInt("1"), PyInt("0")>>)
    /\ outcome.v.k = "dict"
    /\ HasKey(outcome.v.a, "b")

\* ------------------------------------------------------------------------
\* C12
\* ------------------------------------------------------------------------

\* The adapter on the right of the last ==.
C12_Other ==
    SchemaAdapter(outcome.args[3], outcome.args[1].o, outcome.args[2].o, NoneValue, NoExportKwargs)

C12_Resolves(a) == prepared_schema(a, module_globals).v.k # "err"

\* What the claim says a == b is.
C12_Expected(a, b) ==
    IF C12_Resolves(a) /\ C12_Resolves(b) THEN
        /\ a.attname = b.attname
        /\ a.export_kwargs = b.export_kwargs
        /\ PyEq(prepared_schema(a, module_globals).v, prepared_schema(b, module_globals).v)
    ELSE IF is_bound(a) /\ is_bound(b) THEN FALSE
    ELSE /\ a.attname = b.attname
         /\ a.export_kwargs = b.export_kwargs
         /\ PyEq(a.schema, b.schema)
         /\ a.allow_null = b.allow_null

\* C12: a == b is true exactly when: both resolve and attribute names, export
\* options and resolved schemas are equal; or resolution fails on a side, the
\* two are not both bound, and attribute names, export options, raw schemas
\* and allow_null are equal.  With a failing side and both bound it is false.
C12_Equality ==
    outcome.op = "__eq__" => outcome.v = PyBool(C12_Expected(adapter, C12_Other))

\* ------------------------------------------------------------------------
\* C13
\* ------------------------------------------------------------------------

\* The texts of the model that are well-formed JSON.
C13_WellFormed == {"\"1\"", "{\"field\": 2}"}

\* The schema of the adapter did not resolve in the last call.
C13_Unresolved ==
    outcome.v.k = "err" /\ outcome.v.o \in {"NameError", "ImproperlyConfiguredSchema"}

C13_ValidationReached ==
    /\ outcome.op = "validate_json"
    /\ outcome.args[1] = Str("{\"field\": 2}")
    /\ adapter.prepared_schema = Cls("int")
    /\ outcome.v = ValidationError

\* ------------------------------------------------------------------------
\* C14
\* ------------------------------------------------------------------------

\* The arguments the hand-built union containers hold: classes and wrapped
\* generics (list[int], Literal['foo'], typing.Union[int, str]).
ContainerMembers ==
    {Cls("int"), Cls("str"), Cls("NoneType"),
     GenericContainer("list", <<Cls("int")>>),
     GenericContainer("Literal", <<Str("foo")>>),
     GenericContainer("Union", <<Cls("int"), Cls("str")>>)}

\* GenericContainer(types.UnionType, (a1, ..., an)), n in 2..3
UnionContainers ==
    {GenericContainer("UnionType", <<a, b>>) : a \in ContainerMembers, b \in ContainerMembers}
    \cup {GenericContainer("UnionType", <<a, b, c>>) :
            a \in ContainerMembers, b \in ContainerMembers, c \in ContainerMembers}

\* A union container of two arguments as the argument of a list or dict container.
NestedUnionContainers ==
    {GenericContainer("list", <<u>>) :
        u \in {v \in UnionContainers : Len(v.a) = 2}}
    \cup {GenericContainer("dict", <<Cls("str"), u>>) :
        u \in {v \in UnionContainers : Len(v.a) = 2}}

\* A container built by hand, as test_migration_serializers.TestUnionTypeUnwrap
\* builds it, is what unwrap is given.
ContainersInit ==
    /\ raw_type \in UnionContainers \cup NestedUnionContainers
    /\ wrapped_type = raw_type
    /\ unwrapped_type = Unset
    /\ serialized = SerFail
    /\ evaluated = Unset
    /\ AdapterIdle
    /\ SettingsIdle

ContainersNext == Unwrap \/ SerializeWrapped \/ EvaluateText

SpecContainers == ContainersInit /\ [][ContainersNext]_vars

\* The union container a container holds: itself, or the last argument of a
\* list or dict container.
C14_UnionOf(c) == IF c.o = "UnionType" THEN c ELSE c.a[Len(c.a)]

\* The value rebuilt for the union container: the result, or the last
\* argument of the rebuilt list or dict alias.
C14_RebuiltOf(c, r) == IF c.o = "UnionType" THEN r ELSE r.a[Len(r.a)]

\* The distinct members of the unwrapped arguments, in order.
C14_Members(c) == Dedup(FlattenUnion(MapSeq(TypeConvert, MapSeq(BaseContainer_unwrap, c.a))))

\* Every unwrapped argument is a class or a builtin generic alias.
C14_AllUnionable(c) == \A i \in 1..Len(c.a) : IsUnionable(BaseContainer_unwrap(c.a[i]))

RECURSIVE asdict_inner(_)

Dataclass(cls, values) == Mk("dc", cls, values)

\* The dataclasses of the checks: Point(x: int, y: int),
\* Segment(start: Point, label: str), Path(points: list[Point]).
DataclassFields(cls) ==
    CASE cls = "Point" -> <<"x", "y">>
      [] cls = "Segment" -> <<"start", "label">>
      [] cls = "Path" -> <<"points">>
      [] OTHER -> <<>>

\* dataclasses._asdict_inner: a dataclass instance becomes the dict of its
\* fields, lists and dicts are rebuilt around their converted items, any other
\* value is copied.
asdict_inner(obj) ==
    IF obj.k = "dc" THEN
        Dict([i \in 1..Len(obj.a) |-> KV(DataclassFields(obj.o)[i], asdict_inner(obj.a[i]))])
    ELSE IF obj.k = "list" THEN List(MapSeq(asdict_inner, obj.a))
    ELSE IF obj.k = "dict" THEN
        Dict([i \in 1..Len(obj.a) |-> KV(obj.a[i].o, asdict_inner(obj.a[i].a[1]))])
    ELSE obj

\* dataclasses.asdict(obj)
asdict(obj) == asdict_inner(obj)

\* DataclassContainer._is_dataclass_instance
is_dataclass_instance(obj) == obj.k = "dc"

\* DataclassContainer(datacls, kwargs)
DataclassContainer(datacls, kwargs) == Mk("dcc", datacls, <<kwargs>>)

\* DataclassContainer.wrap
DataclassContainer_wrap(value) ==
    IF is_dataclass_instance(value) THEN DataclassContainer(value.o, asdict(value))
    ELSE IF IsGenericType(value) THEN wrap(value)
    ELSE value

\* datacls(**kwargs): the generated __init__ stores each argument as given;
\* a missing or an unexpected keyword is a TypeError.
dataclass_init(datacls, kwargs) ==
    IF /\ \A i \in 1..Len(kwargs.a) :
              \E j \in 1..Len(DataclassFields(datacls)) : DataclassFields(datacls)[j] = kwargs.a[i].o
       /\ \A j \in 1..Len(DataclassFields(datacls)) : HasKey(kwargs.a, DataclassFields(datacls)[j])
    THEN Dataclass(datacls, [j \in 1..Len(DataclassFields(datacls)) |->
                                GetKey(kwargs.a, DataclassFields(datacls)[j])])
    ELSE Err("TypeError")

\* DataclassContainer.unwrap
DataclassContainer_unwrap(value) ==
    IF value.k = "dcc" THEN dataclass_init(value.o, value.a[1]) ELSE value

\* Longest list of points a Path holds.
MaxPathLen == 2

Points == {Dataclass("Point", <<PyInt(x), PyInt(y)>>) : x \in {"0", "1"}, y \in {"0", "1"}}

Segments == {Dataclass("Segment", <<p, Str(l)>>) : p \in Points, l \in {"a", "b"}}

Paths ==
    {Dataclass("Path", <<List(s)>>) : s \in UNION {[1..n -> Points] : n \in 0..MaxPathLen}}

\* What DataclassContainer.wrap is given: dataclass instances, a struct
\* instance, generic type expressions and a class.
WrapInputs ==
    Points \cup Segments \cup Paths
    \cup {Struct("SampleSchema", <<PyInt("1")>>), Cls("int"),
          Mk("ga", "list", <<Cls("int")>>), Mk("union", "UnionType", <<Cls("int"), Cls("NoneType")>>)}

DataclassInit ==
    /\ raw_type \in WrapInputs
    /\ wrapped_type = Unset
    /\ unwrapped_type = Unset
    /\ serialized = SerFail
    /\ evaluated = Unset
    /\ AdapterIdle
    /\ SettingsIdle

\* wrapped_type = DataclassContainer.wrap(raw_type)
WrapDataclass ==
    /\ wrapped_type = Unset
    /\ wrapped_type' = DataclassContainer_wrap(raw_type)
    /\ UNCHANGED <<raw_type, unwrapped_type, serialized, evaluated, avars, fvars, svars>>

\* DataclassContainer.unwrap(wrapped_type)
UnwrapDataclass ==
    /\ wrapped_type # Unset
    /\ unwrapped_type = Unset
    /\ unwrapped_type' = DataclassContainer_unwrap(wrapped_type)
    /\ UNCHANGED <<raw_type, wrapped_type, serialized, evaluated, avars, fvars, svars>>

DataclassNext == WrapDataclass \/ UnwrapDataclass

SpecDataclass == DataclassInit /\ [][DataclassNext]_vars

\* ------------------------------------------------------------------------
\* C15
\* ------------------------------------------------------------------------

\* C15: for every dataclass instance v, also one whose field values are
\* dataclass instances, DataclassContainer.unwrap(DataclassContainer.wrap(v))
\* equals v, rebuilt by calling the class with the stored field values as
\* keyword arguments.
C15_RoundTrip ==
    (unwrapped_type # Unset /\ is_dataclass_instance(raw_type)) =>
        /\ wrapped_type.k = "dcc"
        /\ unwrapped_type = dataclass_init(wrapped_type.o, wrapped_type.a[1])
        /\ unwrapped_type = raw_type

\* ------------------------------------------------------------------------
\* Settings: the host configuration, the settings object and an adapter
\* that dumps values of a type msgspec does not know
\* ------------------------------------------------------------------------

\* SchemaAdapter.from_type(schema, **kwargs)
from_type(schema, kwargs) == SchemaAdapter(schema, NoneName, NoneName, NoneValue, kwargs)

\* The values of settings.DJANGO_MSGSPEC_FIELD: hooks given as functions
\* and as dotted paths, one of which cannot be imported and one of which has
\* no dot.
HostDicts ==
    {Dict(<<>>),
     Dict(<<KV("ENC_HOOK", Fn("custom_enc_hook"))>>),
     Dict(<<KV("ENC_HOOK", Str("tests.test_conf.custom_enc_hook"))>>),
     Dict(<<KV("ENC_HOOK", Str("nonexistent.module.function"))>>),
     Dict(<<KV("ENC_HOOK", Fn("custom_enc_hook")),
            KV("DEC_HOOK", Str("tests.test_conf.custom_dec_hook"))>>),
     Dict(<<KV("DEC_HOOK", Str("nodots"))>>)}

HostConfigurations == {Unconfigured, Configured(Unset)} \cup {Configured(d) : d \in HostDicts}

\* The user_settings a settings object is constructed with.
UserSettingsInputs == {NoUserSettings, Dict(<<KV("ENC_HOOK", Fn("other_enc_hook"))>>)}

\* The attribute names read from the settings object.
SettingNames == {"ENC_HOOK", "DEC_HOOK", "enc_hook", "dec_hook", "INVALID_SETTING"}

\* The enc_hook keyword of from_type: absent, or one of two functions.
ExplicitHooks == {Unset, Fn("custom_enc_hook"), Fn("other_enc_hook")}

\* Values dumped: structs with and without a CustomType inside, a
\* CustomType alone, None.
HookedValues ==
    {Struct("TestStruct", <<Dict(<<KV("key", Str("value"))>>)>>),
     Struct("TestStruct", <<Dict(<<KV("key", Custom("v"))>>)>>),
     Custom("v"),
     NoneValue}

SettingsInit ==
    /\ django_settings \in HostConfigurations
    /\ msgspec_field_settings \in {MsgspecFieldSettings(u) : u \in UserSettingsInputs}
    /\ AdapterIdle
    /\ TypesIdle

\* The host project changes settings.DJANGO_MSGSPEC_FIELD.
Configure ==
    \E h \in HostConfigurations :
        /\ django_settings' = h
        /\ UNCHANGED <<msgspec_field_settings, tvars, avars, fvars>>

\* The step of a settings read; the outcome also notes the keys cached when
\* the read began.
ReadStep(attr, r) ==
    /\ msgspec_field_settings' = r.s
    /\ outcome' = Out("getattr", <<Str(attr), msgspec_field_settings.cached_attrs>>, r.v, r.calls)
    /\ UNCHANGED <<django_settings, adapter, module_globals, declared_since_bind, tvars, fvars>>

\* getattr(msgspec_field_settings, attr)
ReadSetting ==
    \E attr \in SettingNames :
        ReadStep(attr, read_setting(msgspec_field_settings, attr, django_settings))

\* msgspec_field_settings.reload()
Reload ==
    /\ msgspec_field_settings' = reload(msgspec_field_settings)
    /\ outcome' = Out("reload", <<>>, NoneValue, <<>>)
    /\ UNCHANGED <<django_settings, adapter, module_globals, declared_since_bind, tvars, fvars>>

\* reload_settings(): the module's settings object is replaced by a new one.
ReloadSettings ==
    /\ msgspec_field_settings' = get_settings
    /\ outcome' = Out("reload_settings", <<>>, NoneValue, <<>>)
    /\ UNCHANGED <<django_settings, adapter, module_globals, declared_since_bind, tvars, fvars>>

\* adapter = SchemaAdapter.from_type(TestStruct[, enc_hook=...])
FromType ==
    \E h \in ExplicitHooks :
        /\ adapter' = from_type(Cls("TestStruct"), [NoExportKwargs EXCEPT !.enc_hook = h])
        /\ outcome' = Out("from_type", <<h>>, NoneValue, <<>>)
        /\ UNCHANGED <<svars, module_globals, declared_since_bind, tvars, fvars>>

\* adapter.dump_python(value) of an adapter made by from_type
DumpPythonHooked ==
    /\ adapter # Unset
    /\ \E value \in HookedValues :
          outcome' = Out("dump_python", <<value, NoExportKwargs, "absent">>,
                         dump_python(adapter, value, NoExportKwargs, "absent"), <<>>)
    /\ UNCHANGED <<svars, adapter, module_globals, declared_since_bind, tvars, fvars>>

SettingsNext ==
    \/ Configure
    \/ ReadSetting
    \/ Reload
    \/ ReloadSettings
    \/ FromType
    \/ DumpPythonHooked

SpecSettings == SettingsInit /\ [][SettingsNext]_vars

\* ------------------------------------------------------------------------
\* C16
\* ------------------------------------------------------------------------

\* The hook an adapter is to dump with: its own enc_hook when one was passed,
\* else the ENC_HOOK the settings object holds.
C16_Hook ==
    IF adapter.export_kwargs.enc_hook # Unset THEN adapter.export_kwargs.enc_hook
    ELSE GetKey(msgspec_field_settings.attrs, "ENC_HOOK")

\* C16: an adapter created without an explicit enc_hook dumps a value with
\* the ENC_HOOK of the settings (here: the value the settings object has
\* resolved and holds), and an enc_hook passed to the adapter is the one
\* stored and used instead.
C16_SettingsEncHook ==
    /\ outcome.op = "from_type" => adapter.export_kwargs.enc_hook = outcome.args[1]
    /\ (/\ outcome.op = "dump_python"
        /\ outcome.args[1] # NoneValue
        /\ HasKey(msgspec_field_settings.attrs, "ENC_HOOK")) =>
            outcome.v = to_builtins_enc_hook(outcome.args[1], C16_Hook)

\* The part of C16 the code keeps: an explicit enc_hook is stored and used.
C16_ExplicitHook ==
    /\ outcome.op = "from_type" => adapter.export_kwargs.enc_hook = outcome.args[1]
    /\ (/\ outcome.op = "dump_python"
        /\ outcome.args[1] # NoneValue
        /\ adapter.export_kwargs.enc_hook # Unset) =>
            outcome.v = to_builtins_enc_hook(outcome.args[1], adapter.export_kwargs.enc_hook)

\* ------------------------------------------------------------------------
\* C17
\* ------------------------------------------------------------------------

C17_Keys == {"ENC_HOOK", "DEC_HOOK"}

\* What a recognised key resolves to from the settings dict d: the user value
\* if present (a dotted path imported), else the default None.
C17_Resolution(d, key) ==
    IF ~HasKey(d.a, key) THEN NoneValue
    ELSE IF GetKey(d.a, key).k = "str" THEN import_string(GetKey(d.a, key).o)
    ELSE GetKey(d.a, key)

\* The settings dict of the host configuration as it is now.
C17_HostDict ==
    IF django_settings = Unconfigured \/ django_settings.a[1] = Unset THEN Dict(<<>>)
    ELSE django_settings.a[1]

\* The settings dict a read resolves from: the user settings the object
\* holds, or the host's when it holds none.
C17_UserDict ==
    IF msgspec_field_settings.user_settings.a # <<>> THEN msgspec_field_settings.user_settings
    ELSE C17_HostDict

\* A read of key, by its name or by its property, has just been made.
C17_ReadOf(key) ==
    /\ ReadSetting
    /\ outcome'.op = "getattr"
    /\ PropertyTarget(outcome'.args[1].o) = key

\* C17: the first read of a recognised key resolves it (the user value if
\* present, else the default; a dotted path imported) and caches it; a later
\* read returns the cached value and consults nothing; reload() leaves no key
\* cached, and the read that follows it resolves the key from the host
\* configuration as it then is.
C17_CacheAndReload ==
    [][/\ \A key \in C17_Keys :
            C17_ReadOf(key) =>
                IF key \in msgspec_field_settings.cached_attrs THEN
                    /\ outcome'.v = GetKey(msgspec_field_settings.attrs, key)
                    /\ outcome'.calls = <<>>
                    /\ msgspec_field_settings' = msgspec_field_settings
                ELSE
                    /\ outcome'.v.k # "err" =>
                          /\ outcome'.v = C17_Resolution(C17_UserDict, key)
                          /\ key \in msgspec_field_settings'.cached_attrs
                          /\ GetKey(msgspec_field_settings'.attrs, key) = outcome'.v
                    /\ (outcome.op = "reload" /\ outcome'.v.k # "err") =>
                          /\ outcome'.v = C17_Resolution(C17_HostDict, key)
                          /\ \E i \in 1..Len(outcome'.calls) :
                                outcome'.calls[i] = "_load_user_settings"
       /\ Reload =>
            /\ msgspec_field_settings'.cached_attrs = {}
            /\ msgspec_field_settings'.attrs = <<>>
      ]_vars

\* A cached key was read while the host configuration names a path that
\* cannot be imported: the cached function came back and nothing was called.
C17_Witness ==
    /\ outcome.op = "getattr"
    /\ outcome.args[1] = Str("ENC_HOOK")
    /\ "ENC_HOOK" \in outcome.args[2]
    /\ outcome.calls = <<>>
    /\ outcome.v = Fn("custom_enc_hook")
    /\ django_settings = Configured(Dict(<<KV("ENC_HOOK", Str("nonexistent.module.function"))>>))

\* After reload(), a key that had been resolved from the user settings the
\* object was constructed with has been resolved from the host configuration.
C17_ReloadWitness ==
    /\ outcome.op = "getattr"
    /\ outcome.args[1] = Str("ENC_HOOK")
    /\ outcome.args[2] = {}
    /\ outcome.calls = <<"__getattr__", "_load_user_settings", "import_string">>
    /\ outcome.v = Fn("custom_enc_hook")
    /\ msgspec_field_settings.cached_attrs = {"ENC_HOOK"}

\* ------------------------------------------------------------------------
\* C18
\* ------------------------------------------------------------------------

\* The message of the exception e holds the text piece.
C18_MessageHas(e, piece) == \E i \in 1..Len(e.a) : e.a[i] = Str(piece)

\* The key that is about to be read holds a dotted path that cannot be
\* imported: it is not cached and the user value is such a string.
C18_BadPath(key) ==
    /\ key \in C17_Keys
    /\ key \notin msgspec_field_settings.cached_attrs
    /\ HasKey(C17_UserDict.a, key)
    /\ GetKey(C17_UserDict.a, key).k = "str"
    /\ import_string(GetKey(C17_UserDict.a, key).o).k = "err"

\* C18: a read of a name that is not a recognised setting raises
\* AttributeError; a read of a recognised key whose value is a dotted path
\* that cannot be imported raises ImportError, whose message holds the path
\* and the setting name; neither read changes the cached keys, and a read of
\* the same name right after a failed one goes through the resolution again.
C18_FailedRead ==
    [][(ReadSetting /\ outcome'.op = "getattr") =>
          /\ PropertyTarget(outcome'.args[1].o) \notin C17_Keys =>
                /\ outcome'.v.k = "err"
                /\ outcome'.v.o = "AttributeError"
                /\ msgspec_field_settings' = msgspec_field_settings
          /\ C18_BadPath(PropertyTarget(outcome'.args[1].o)) =>
                /\ outcome'.v.k = "err"
                /\ outcome'.v.o = "ImportError"
                /\ C18_MessageHas(outcome'.v,
                                  GetKey(C17_UserDict.a, PropertyTarget(outcome'.args[1].o)).o)
                /\ C18_MessageHas(outcome'.v, PropertyTarget(outcome'.args[1].o))
          /\ outcome'.v.k = "err" =>
                /\ msgspec_field_settings'.cached_attrs = msgspec_field_settings.cached_attrs
                /\ msgspec_field_settings'.attrs = msgspec_field_settings.attrs
          /\ (/\ outcome.op = "getattr"
              /\ outcome.v.k = "err"
              /\ outcome.args[1] = outcome'.args[1]) =>
                /\ outcome'.calls # <<>>
                /\ outcome'.calls[1] = "__getattr__"
                /\ outcome.v.o = "ImportError" =>
                      outcome'.calls[Len(outcome'.calls)] = "import_string"
      ]_vars

\* A dotted path that cannot be imported was read while another key is
\* cached: ImportError, and the cached keys are as they were.
C18_Witness ==
    /\ outcome.op = "getattr"
    /\ outcome.args[1] = Str("DEC_HOOK")
    /\ outcome.v.k = "err"
    /\ outcome.v.o = "ImportError"
    /\ C18_MessageHas(outcome.v, "nodots")
    /\ C18_MessageHas(outcome.v, "DEC_HOOK")
    /\ outcome.args[2] = {"ENC_HOOK"}
    /\ msgspec_field_settings.cached_attrs = {"ENC_HOOK"}

\* A name that is no setting was read.
C18_AttributeErrorReached ==
    /\ outcome.op = "getattr"
    /\ outcome.args[1] = Str("INVALID_SETTING")
    /\ outcome.v.o = "AttributeError"

\* ------------------------------------------------------------------------
\* The callers of the adapter: rest_framework/parsers.py, renderers.py,
\* fields.py and forms.py
\* ------------------------------------------------------------------------

\* str(exc) of a msgspec exception: the library's diagnostic, one text for
\* each of its two families (malformed JSON, value refused by the schema).
str_exc(exc) ==
    IF exc.a # <<>> THEN exc.a[1]
    ELSE IF exc.o = "DecodeError" THEN Str("Input data was truncated")
    ELSE Str("Expected int, got object")

\* rest_framework.exceptions.ParseError(detail)
exceptions_ParseError(detail) == Mk("err", "ParseError", <<detail>>)

\* rest_framework.exceptions.ValidationError(detail, code=code)
exceptions_ValidationError(detail, code) ==
    Mk("err", "rest_framework.ValidationError", <<detail, Str(code)>>)

\* django.core.exceptions.ValidationError(error_messages["schema_error"],
\* code="invalid", params=error_params); the message is the template, in
\* which (title) stands for the placeholder of params["title"].
forms_ValidationError(title, value, detail) ==
    Mk("err", "django.ValidationError",
       <<Str("Schema didn't match for (title)."), Str("invalid"),
         KV("value", value), KV("title", Str(title)), KV("detail", detail),
         KV("errors", List(<<detail>>))>>)

\* The error parse and render raise when they have no adapter.
NoAdapterError ==
    ErrMsg("RuntimeError",
           "Schema should be either explicitly set with annotation or passed in the context")

\* A renderer or parser context: the schema and the export options found
\* under the component's context keys, Unset when the key is absent.
Context(schema, config) == [schema |-> schema, config |-> config]

\* AnnotatedAdapterMixin.get_adapter(ctx): the adapter of the explicit
\* binding, else one made from the schema of the context, else None.
get_adapter(annotated, ctx) ==
    IF annotated # Unset THEN annotated
    ELSE IF ctx.schema # Unset THEN
        from_type(ctx.schema, IF ctx.config = Unset THEN NoExportKwargs ELSE ctx.config)
    ELSE Unset

\* The component keeps its own adapter: one made from the context is dropped
\* after the call.
KeepAnnotated(annotated, r) == IF annotated = Unset THEN [r EXCEPT !.a = Unset] ELSE r

\* Both exceptions answered with the framework's fixed detail (a mutant of
\* parse_result).
parse_result_FixedDetail(r) ==
    IF r.v.k = "err" /\ r.v.o \in {"ValidationError", "DecodeError"}
        THEN Res(exceptions_ParseError(Str("Malformed request.")), r.a, r.calls)
    ELSE r

\* The except clauses of SchemaParser.parse
parse_result(r) ==
    IF r.v.k = "err" /\ r.v.o \in {"ValidationError", "DecodeError"}
        THEN Res(exceptions_ParseError(str_exc(r.v)), r.a, r.calls)
    ELSE r

\* SchemaParser.parse after get_adapter returned a.
parse_with(annotated, a, text, g) ==
    IF a = Unset THEN Res(NoAdapterError, annotated, <<>>)
    ELSE KeepAnnotated(annotated, parse_result(validate_json(a, text, NoneValue, g)))

\* SchemaParser.parse(stream, parser_context=ctx)
parse(annotated, text, ctx, g) == parse_with(annotated, get_adapter(annotated, ctx), text, g)

\* rest_framework JSONRenderer.render(data): json.dumps of builtin data.
JSONRenderer_render(data) ==
    IF data.k \in {"dict", "list", "str", "int", "none"} THEN Mk("bytes", "json", <<data>>)
    ELSE Err("TypeError")

\* SchemaRenderer.render_msgspec_struct: msgspec.json.encode(instance)
render_msgspec_struct(instance) == json_encode(to_builtins(instance))

\* The try block of SchemaRenderer.render after validate_python.
rendered(prep) ==
    IF prep.v.k = "err" THEN
        IF prep.v.o = "ValidationError"
            THEN Res(json_encode(Dict(<<KV("error", str_exc(prep.v))>>)), prep.a, prep.calls)
        ELSE prep
    ELSE Res(dump_json(prep.a, prep.v, NoExportKwargs, "absent"), prep.a, prep.calls)

\* SchemaRenderer.render after get_adapter returned a.
render_with(annotated, a, data, g) ==
    IF a = Unset /\ data.k = "struct" THEN Res(render_msgspec_struct(data), annotated, <<>>)
    ELSE IF a = Unset THEN Res(NoAdapterError, annotated, <<>>)
    ELSE KeepAnnotated(annotated, rendered(validate_python(a, data, NoneValue, g)))

\* A response of the view: whether it answers an exception.
Response(exception) == Mk("response", "", <<exception>>)

\* SchemaRenderer.render(data, renderer_context={"response": response, ...})
render(annotated, data, response, ctx, g) ==
    IF response # NoneValue /\ Truthy(response.a[1])
        THEN Res(JSONRenderer_render(data), annotated, <<>>)
    ELSE render_with(annotated, get_adapter(annotated, ctx), data, g)

\* forms.SchemaField._try_coerce and the branch of the serializer field:
\* text is decoded, any other value is converted.
try_coerce(a, value, g) ==
    IF value.k = "str" THEN validate_json(a, value.o, NoneValue, g)
    ELSE validate_python(a, value, NoneValue, g)

\* The except clauses and the tail of forms.SchemaField.to_python
to_python_result(value, r) ==
    IF r.v.k = "err" /\ r.v.o = "ValidationError"
        THEN Res(forms_ValidationError("Schema", value, str_exc(r.v)), r.a, r.calls)
    ELSE IF r.v.k = "err" /\ r.v.o = "DecodeError"
        THEN Res(forms_ValidationError("JSON", value, str_exc(r.v)), r.a, r.calls)
    ELSE IF r.v.k = "str" THEN Res(Mk("JSONString", r.v.o, <<>>), r.a, r.calls)
    ELSE r

\* django.forms.Field.empty_values
EmptyValues == {NoneValue, Str(""), List(<<>>), Dict(<<>>)}

\* forms.SchemaField.to_python(value)
to_python(a, value, disabled, g) ==
    IF disabled THEN Res(value, a, <<>>)
    ELSE IF value \in EmptyValues THEN Res(NoneValue, a, <<>>)
    ELSE to_python_result(value, try_coerce(a, value, g))

\* The except clauses of rest_framework SchemaField.to_internal_value
to_internal_value_result(r) ==
    IF r.v.k = "err" /\ r.v.o \in {"ValidationError", "DecodeError"}
        THEN Res(exceptions_ValidationError(str_exc(r.v), "invalid"), r.a, r.calls)
    ELSE r

\* rest_framework SchemaField.to_internal_value(data)
to_internal_value(a, data, g) == to_internal_value_result(try_coerce(a, data, g))

\* The adapters of an explicit binding: none, or one of a schema that
\* resolves by itself.
BoundAdapters ==
    {Unset,
     SchemaAdapter(Cls("int"), NoneName, NoneName, NoneValue, NoExportKwargs),
     SchemaAdapter(Cls("SampleSchema"), NoneName, NoneName, NoneValue, NoExportKwargs)}

Contexts ==
    {Context(Unset, Unset), Context(Cls("int"), Unset),
     Context(Cls("SampleSchema"), NoExportKwargs)}

\* What render is given: a struct, builtin data that is and is not a
\* SampleSchema, the body of an error response, None.
RenderData ==
    {Struct("SampleSchema", <<PyInt("2")>>),
     Dict(<<KV("field", PyInt("2"))>>),
     Str("x"),
     Dict(<<KV("detail", Str("Not found."))>>),
     NoneValue}

Responses == {NoneValue, Response(PyFalse), Response(PyTrue)}

\* What the form field and the serializer field are given: JSON texts, an
\* empty text, Python data.
CallerInputs ==
    {Str(t) : t \in JsonTexts} \cup {Str(""), Dict(<<KV("field", PyInt("2"))>>), Str("null")}

RestInit ==
    /\ adapter \in BoundAdapters
    /\ module_globals = <<>>
    /\ declared_since_bind = FALSE
    /\ outcome = NoOutcome
    /\ TypesIdle
    /\ FieldIdle
    /\ SettingsIdle

\* The step of a caller: its adapter after the call and the outcome.
CallerStep(op, args, r) ==
    /\ adapter' = r.a
    /\ outcome' = Out(op, args, r.v, r.calls)
    /\ UNCHANGED <<module_globals, declared_since_bind, tvars, fvars, svars>>

\* SchemaParser().parse(stream, parser_context=ctx)
Parse ==
    \E text \in JsonTexts, ctx \in Contexts :
        CallerStep("parse", <<Str(text), ctx.schema, PyBool(adapter # Unset)>>,
                   parse(adapter, text, ctx, module_globals))

\* SchemaRenderer().render(data, renderer_context=ctx)
Render ==
    \E data \in RenderData, response \in Responses, ctx \in Contexts :
        CallerStep("render", <<data, ctx.schema, PyBool(adapter # Unset), response>>,
                   render(adapter, data, response, ctx, module_globals))

\* forms.SchemaField(schema).to_python(value)
ToPython ==
    /\ adapter # Unset
    /\ \E value \in CallerInputs, disabled \in BOOLEAN :
          CallerStep("to_python", <<value, PyBool(disabled)>>,
                     to_python(adapter, value, disabled, module_globals))

\* rest_framework SchemaField(schema).to_internal_value(data)
ToInternalValue ==
    /\ adapter # Unset
    /\ \E data \in CallerInputs :
          CallerStep("to_internal_value", <<data>>,
                     to_internal_value(adapter, data, module_globals))

RestNext == Parse \/ Render \/ ToPython \/ ToInternalValue

SpecRest == RestInit /\ [][RestNext]_vars

\* ------------------------------------------------------------------------
\* C19
\* ------------------------------------------------------------------------

\* C19: when parse or render can obtain no adapter, neither from the
\* explicit binding nor from the context, the call fails with the
\* configuration error, whatever it is given.
C19_NoAdapterFails ==
    (/\ outcome.op \in {"parse", "render"}
     /\ outcome.args[2] = Unset
     /\ outcome.args[3] = PyFalse) =>
        outcome.v = NoAdapterError

\* The part of C19 that holds: parse, which has no path around the adapter.
C19_ParseNoAdapterFails ==
    (/\ outcome.op = "parse"
     /\ outcome.args[2] = Unset
     /\ outcome.args[3] = PyFalse) =>
        outcome.v = NoAdapterError

\* A struct was rendered by a renderer that has no adapter and no response
\* in its context.
C19_StructRendered ==
    /\ outcome.op = "render"
    /\ outcome.args[1].k = "struct"
    /\ outcome.args[2] = Unset
    /\ outcome.args[3] = PyFalse
    /\ outcome.args[4] = NoneValue
    /\ outcome.v.k = "bytes"

\* ------------------------------------------------------------------------
\* C20
\* ------------------------------------------------------------------------

C20_Callers == {"to_python", "parse", "to_internal_value"}

\* The schema of the adapter a call recorded in o used.
C20_Schema(o) ==
    IF o.op = "parse" /\ o.args[3] = PyFalse THEN o.args[2] ELSE adapter.schema

\* The call recorded in o was made, by a field that is not disabled, with an
\* adapter.
C20_Made(o) ==
    /\ o.op \in C20_Callers
    /\ C20_Schema(o) # Unset
    /\ o.op = "to_python" => o.args[2] = PyFalse

\* The call recorded in o was given text that is not well-formed JSON.
C20_Malformed(o) == C20_Made(o) /\ o.args[1] = Str("{")

\* The call recorded in o was given well-formed JSON that its schema refuses.
C20_Mismatch(o) ==
    /\ C20_Made(o)
    /\ \/ C20_Schema(o) = Cls("int") /\ o.args[1] = Str("{\"field\": 2}")
       \/ C20_Schema(o) = Cls("SampleSchema") /\ o.args[1] = Str("\"1\"")

\* The title a form failure carries in its params.
C20_Title(e) == GetKey(SelectSeq(e.a, LAMBDA x : x.k = "kv"), "title")

C20_FormWitness ==
    /\ outcome.op = "to_python"
    /\ outcome.args = <<Str("{"), PyFalse>>
    /\ outcome.v.o = "django.ValidationError"
    /\ C20_Title(outcome.v) = Str("JSON")

\* ------------------------------------------------------------------------
\* The adapter's life with a name declared again, copies and dumps
\* ------------------------------------------------------------------------

\* SchemaAdapter.__copy__: a new instance from the constructor's arguments,
\* then instance.__dict__.update(self.__dict__): every entry of the
\* original's __dict__, the cached values it holds included.
SchemaAdapter_copy(a) ==
    LET instance == SchemaAdapter(a.schema, a.parent_type, a.attname, a.allow_null,
                                  a.export_kwargs)
        Entry(key, built) == IF key # Unset THEN key ELSE built
    IN  [instance EXCEPT !.schema = a.schema, !.parent_type = a.parent_type,
                         !.attname = a.attname, !.allow_null = a.allow_null,
                         !.export_kwargs = a.export_kwargs,
                         !.prepared_schema = Entry(a.prepared_schema, @),
                         !.decoder = Entry(a.decoder, @),
                         !.encoder = Entry(a.encoder, @)]

\* The class the module binds to the name SampleSchema when it declares the
\* name a second time.
RedeclaredValue == Cls("str")

\* The module assigns the name SampleSchema again, to another class.
Redeclare ==
    /\ module_globals = <<KV("SampleSchema", Cls("SampleSchema"))>>
    /\ module_globals' = <<KV("SampleSchema", RedeclaredValue)>>
    /\ declared_since_bind' = TRUE
    /\ UNCHANGED <<adapter, outcome, tvars, fvars, svars>>

\* adapter = copy.copy(adapter)
Copy == Step("__copy__", <<>>, Res(NoneValue, SchemaAdapter_copy(adapter), <<>>))

\* adapter.dump_python(value)
DumpBound ==
    \E value \in PythonInputs :
        Step("dump_python", <<value>>,
             Res(dump_python(adapter, value, NoExportKwargs, "absent"), adapter, <<>>))

\* adapter._decoder
AccessDecoder == Step("_decoder", <<>>, decoder(adapter, module_globals))

LifeNext ==
    \/ Declare
    \/ Redeclare
    \/ Bind
    \/ AccessPreparedSchema
    \/ AccessDecoder
    \/ AccessEncoder
    \/ ValidateSchema
    \/ ValidatePython
    \/ ValidateJson
    \/ JsonSchema
    \/ GetDefaultValue
    \/ Eq
    \/ Copy
    \/ DumpBound

SpecLife == AdapterInit /\ [][LifeNext]_vars

\* ------------------------------------------------------------------------
\* C23
\* ------------------------------------------------------------------------

\* The operations of an adapter other than bind.
C23_Operations == ResolvingOperations \cup {"_encoder", "__copy__", "dump_python"}

\* What resolving would give now, with nothing cached.
C23_Fresh(a, g) ==
    prepare_schema(SchemaAdapter(a.schema, a.parent_type, a.attname, a.allow_null,
                                 a.export_kwargs), g)

\* C23: between two binds, once the resolved schema is cached every operation
\* leaves it as it is, and an access returns it, whatever the module has
\* declared since; a cached decoder is left as it is too, and a decoder that
\* gets built is built from the cached resolved schema.
C23_ResolvedOnce ==
    [][(outcome'.op \in C23_Operations /\ module_globals' = module_globals) =>
         /\ adapter.prepared_schema # Unset =>
              /\ adapter'.prepared_schema = adapter.prepared_schema
              /\ outcome'.op = "prepared_schema" => outcome'.v = adapter.prepared_schema
         /\ adapter.decoder # Unset =>
              /\ adapter'.decoder = adapter.decoder
              /\ outcome'.op = "_decoder" => outcome'.v = adapter.decoder
         /\ (adapter.decoder = Unset /\ adapter'.decoder # Unset) =>
              /\ adapter'.prepared_schema # Unset
              /\ adapter'.decoder.a[1] = adapter'.prepared_schema
              /\ adapter.prepared_schema # Unset =>
                    adapter'.decoder.a[1] = adapter.prepared_schema
      ]_vars

\* An access returned the cached schema although resolving now gives
\* another class: the module has declared the name again since.
C23_Witness ==
    /\ outcome.op = "prepared_schema"
    /\ declared_since_bind
    /\ adapter.prepared_schema = Cls("SampleSchema")
    /\ outcome.v = Cls("SampleSchema")
    /\ C23_Fresh(adapter, module_globals) = RedeclaredValue

\* A decoder was built from a schema resolved before the name was declared
\* again.
C23_DecoderWitness ==
    /\ outcome.op \in {"_decoder", "validate_json"}
    /\ adapter.decoder # Unset
    /\ adapter.decoder.a[1] = Cls("SampleSchema")
    /\ C23_Fresh(adapter, module_globals) = RedeclaredValue

\* ------------------------------------------------------------------------
\* C28
\* ------------------------------------------------------------------------

\* The operations that read self.prepared_schema or self._decoder.
C28_Accesses ==
    {"prepared_schema", "_decoder", "validate_python", "validate_json", "json_schema",
     "get_default_value"}

\* The resolution raised: the name is in no namespace, or there is no schema.
C28_Failed(o) ==
    /\ o.op \in C28_Accesses
    /\ o.v.k = "err"
    /\ o.v.o \in {"NameError", "ImproperlyConfiguredSchema"}

\* C28: an access whose resolution fails leaves neither a resolved schema nor
\* a decoder in the adapter; and the access that follows a failed one, with
\* no bind in between, resolves again: when the target has become resolvable
\* it succeeds and caches what the resolution gives now.
C28_FailureNotCached ==
    [][(outcome'.op \in C28_Accesses /\ module_globals' = module_globals) =>
         /\ C28_Failed(outcome') =>
              /\ adapter'.prepared_schema = Unset
              /\ adapter'.decoder = Unset
         /\ (/\ C28_Failed(outcome)
             /\ C23_Fresh(adapter, module_globals).k # "err"
             /\ ~(outcome'.op = "validate_python" /\ outcome'.args[1] = NoneValue
                    /\ Truthy(adapter.allow_null))) =>
              /\ ~C28_Failed(outcome')
              /\ adapter'.prepared_schema = C23_Fresh(adapter, module_globals)
      ]_vars

\* The access to the schema of SampleForwardRefModel.annotated_field failed
\* before the module declared SampleSchema; nothing is cached and the name
\* is declared now.
C28_Witness ==
    /\ C28_Failed(outcome)
    /\ outcome.v.o = "NameError"
    /\ adapter.parent_type = "SampleForwardRefModel"
    /\ adapter.attname = "annotated_field"
    /\ adapter.prepared_schema = Unset
    /\ adapter.decoder = Unset
    /\ declared_since_bind
    /\ C23_Fresh(adapter, module_globals) \in {Cls("SampleSchema"),
                                               SubscriptUnion(<<Cls("SampleSchema"), Cls("NoneType")>>)}

\* ------------------------------------------------------------------------
\* C29
\* ------------------------------------------------------------------------

\* The module globals a resolution can have seen.
C29_Globals ==
    {<<>>, <<KV("SampleSchema", Cls("SampleSchema"))>>, <<KV("SampleSchema", RedeclaredValue)>>}

\* C29: in every reachable state, an adapter that holds a decoder holds a
\* resolved schema too, the decoder is the one msgspec builds from that
\* resolved schema and the stored strict option, and that resolved schema is
\* what the adapter's current owner and attribute resolve to (in the module
\* as it stood at some time): no decoder of an earlier binding is left.
C29_DecoderOfBinding ==
    adapter.decoder # Unset =>
        /\ adapter.prepared_schema # Unset
        /\ adapter.decoder = Decoder(adapter.prepared_schema, StoredStrict(adapter))
        /\ \E g \in C29_Globals : adapter.prepared_schema = C23_Fresh(adapter, g)

\* An adapter bound to NestedModel.annotated_field built a decoder: it is
\* the decoder of the class only this owner's namespace gives.
C29_Witness ==
    /\ outcome.op \in {"_decoder", "validate_json"}
    /\ adapter.parent_type = "NestedModel"
    /\ adapter.attname = "annotated_field"
    /\ adapter.decoder = Decoder(Cls("NestedModel.SampleSchema"), PyFalse)
    /\ adapter.prepared_schema = Cls("NestedModel.SampleSchema")

\* A copy was taken of an adapter holding a decoder; the copy holds it too.
C29_CopyWitness ==
    /\ outcome.op = "__copy__"
    /\ adapter.decoder # Unset
    /\ adapter.parent_type = "SampleForwardRefModel"

\* ------------------------------------------------------------------------
\* C27
\* ------------------------------------------------------------------------

\* The adapter on the right of the == whose outcome is o.
C27_Right(o) == SchemaAdapter(o.args[3], o.args[1].o, o.args[2].o, NoneValue, NoExportKwargs)

\* C27: a == b gives what b == a gives (the same bool, or the same
\* exception), for the adapter a as it stood before the comparison.
C27_Symmetric ==
    [][(outcome'.op = "__eq__" /\ module_globals' = module_globals) =>
         outcome'.v = eq(C27_Right(outcome'), adapter, module_globals).v
      ]_vars

\* The two orders agree whenever both adapters resolve.
C27_SymmetricWhenResolved ==
    [][(/\ outcome'.op = "__eq__" /\ module_globals' = module_globals
        /\ prepared_schema(adapter, module_globals).v.k # "err"
        /\ prepared_schema(C27_Right(outcome'), module_globals).v.k # "err") =>
         outcome'.v = eq(C27_Right(outcome'), adapter, module_globals).v
      ]_vars

\* ------------------------------------------------------------------------
\* The model field on a model instance (fields.py): to_python,
\* from_db_value, validate and the descriptors
\* ------------------------------------------------------------------------

\* isinstance(exc, (ValueError, msgspec.DecodeError, msgspec.ValidationError)):
\* ImproperlyConfiguredSchema is a ValueError (types.py 51), NameError is not.
IsValueOrDecodeError(v) ==
    /\ v.k = "err"
    /\ v.o \in {"ValueError", "ImproperlyConfiguredSchema", "DecodeError", "ValidationError"}

\* django.core.exceptions.ValidationError(message, code=code)
django_ValidationError(message, code) == Mk("err", "django.ValidationError", <<message, Str(code)>>)

\* to_python, lines 189-192: given the outcome r of validate_python, a
\* msgspec.ValidationError is raised again as Django's ValidationError.
python_validated(r) ==
    IF r.v.k = "err" /\ r.v.o = "ValidationError"
    THEN Res(django_ValidationError(str_exc(r.v), "invalid"), r.a, r.calls)
    ELSE r

\* to_python, lines 183-190: given the outcome j of validate_json, one of
\* the three named exceptions is dropped and the value is validated as a
\* Python object; any other outcome is j itself.
json_or_python(j, value, g) ==
    IF IsValueOrDecodeError(j.v) THEN python_validated(validate_python(j.a, value, NoneValue, g))
    ELSE j

\* MsgspecSchemaField.to_python(value)
MsgspecSchemaField_to_python(f, value, g) ==
    IF value.k \in {"str", "bytes"}
    THEN json_or_python(validate_json(f.adapter, value.o, NoneValue, g), value, g)
    ELSE python_validated(validate_python(f.adapter, value, NoneValue, g))

\* django JSONField.from_db_value for text: json.loads, the text itself when
\* it is not JSON.
JSONField_from_db_value(value) ==
    IF json_loads(value.o).k = "err" THEN value ELSE json_loads(value.o)

\* from_db_value, lines 202-205: given the outcome j of validate_json, one of
\* the three named exceptions is dropped and JSONField reads the value.
db_value_or_json(j, value) ==
    IF IsValueOrDecodeError(j.v) THEN Res(JSONField_from_db_value(value), j.a, j.calls) ELSE j

\* MsgspecSchemaField.from_db_value(value, expression, connection);
\* expression is the name of the expression's class.
from_db_value(f, value, expression, g) ==
    IF value = NoneValue THEN Res(value, f.adapter, <<>>)
    ELSE IF expression = "KeyTransform" THEN Res(JSONField_from_db_value(value), f.adapter, <<>>)
    ELSE db_value_or_json(validate_json(f.adapter, value.o, NoneValue, g), value)

\* The tail of validate: django Field.validate returns None.
validated(r) == IF r.v.k = "err" THEN r ELSE Res(NoneValue, r.a, r.calls)

\* MsgspecSchemaField.validate(value, model_instance)
validate(f, value, g) == validated(validate_python(f.adapter, value, NoneValue, g))

\* The attribute class for every field (a mutant of descriptor_class).
descriptor_class_AlwaysSchemaAttribute(f) == "SchemaAttribute"

\* MsgspecSchemaField.descriptor_class(field)
descriptor_class(f) ==
    IF has_default(f) THEN "SchemaAttribute" ELSE "UninitializedSchemaAttribute"

\* SchemaAttribute.__set__ and UninitializedSchemaAttribute.__set__: what is
\* stored in obj.__dict__[attname], or the exception raised before storing.
descriptor_set(f, value, g) ==
    IF descriptor_class(f) = "UninitializedSchemaAttribute" /\ value = NoneValue
    THEN Res(value, f.adapter, <<>>)
    ELSE MsgspecSchemaField_to_python(f, value, g)

\* Model.__init__ for the field, given the outcome d of field.get_default():
\* setattr(self, field.attname, val)
set_default(f, d, g) ==
    IF d.v.k = "err" THEN d ELSE descriptor_set([f EXCEPT !.adapter = d.a], d.v, g)

\* Model.__init__(**kwargs) for the field: the keyword's value if given
\* (Unset: not given), else field.get_default().
Model_init(f, given, g) ==
    IF given # Unset THEN descriptor_set(f, given, g)
    ELSE set_default(f, get_default(f, g), g)

\* The JSON text of an InnerSchema with an empty list.
InnerJson == "{\"stub_str\": \"\", \"stub_list\": []}"

\* The JSON text of the string that is itself the JSON text of "1".
NestedJson == "\"\\\"1\\\"\""

\* (schema, default) of the fields a model class declares: struct, list and
\* str schemas, a schema taken from the annotation (None), each without a
\* default and with one that conforms.
InstanceFields ==
    {<<Cls("InnerSchema"), Unset>>,
     <<Cls("InnerSchema"), Dict(<<KV("stub_str", Str("abc")), KV("stub_list", List(<<>>))>>)>>,
     <<Mk("tga", "list", <<Cls("InnerSchema")>>), Unset>>,
     <<Mk("tga", "list", <<Cls("InnerSchema")>>), Cls("list")>>,
     <<Cls("str"), Unset>>,
     <<Cls("str"), Str("")>>,
     <<NoneValue, Unset>>,
     <<NoneValue, Cls("dict")>>}

\* The (cls, name) the fields are contributed with: SampleForwardRefModel
\* annotates annotated_field and does not annotate field.
InstanceOwners ==
    {<<"SampleForwardRefModel", "annotated_field">>, <<"SampleForwardRefModel", "field">>}

\* The values given to the constructor, assigned, and passed to to_python
\* and validate.
InstanceValues ==
    {NoneValue, PyInt("1"),
     Dict(<<KV("stub_list", Dict(<<>>)), KV("stub_str", Str(""))>>),
     Dict(<<KV("stub_list", List(<<>>)), KV("stub_str", Str(""))>>),
     Struct("InnerSchema", <<Str(""), List(<<>>), PyInt("1")>>),
     List(<<>>), Dict(<<>>),
     Str("abc"), Str("\"1\""), Str(NestedJson), Str(InnerJson)}

\* The texts a database row holds.
DbValues == {NoneValue, Str("{"), Str("\"1\""), Str("1"), Str(InnerJson), Str("{\"field\": 2}")}

\* A model class declares a field and the module has declared SampleSchema;
\* no instance exists yet.
InstanceInit ==
    /\ model_field \in {contribute_to_class(MsgspecSchemaField(sd[1], sd[2], n, Unset, NoExportKwargs),
                                            o[1], o[2]) :
                           sd \in InstanceFields, n \in {PyTrue, PyFalse}, o \in InstanceOwners}
    /\ reconstructed_field = NoField
    /\ model_instance = Unset
    /\ adapter = Unset
    /\ module_globals = <<KV("SampleSchema", Cls("SampleSchema"))>>
    /\ declared_since_bind = FALSE
    /\ outcome = NoOutcome
    /\ TypesIdle
    /\ SettingsIdle

\* The step of an operation of the field that stores nothing in the instance.
FieldStep(op, args, r) ==
    /\ model_field' = [model_field EXCEPT !.adapter = r.a]
    /\ outcome' = Out(op, args, r.v, r.calls)
    /\ UNCHANGED <<reconstructed_field, model_instance, adapter, module_globals,
                   declared_since_bind, tvars, svars>>

\* The step of an operation that stores r.v in the instance unless it raised.
StoreStep(op, args, r) ==
    /\ model_field' = [model_field EXCEPT !.adapter = r.a]
    /\ outcome' = Out(op, args, r.v, r.calls)
    /\ model_instance' = IF r.v.k = "err" THEN model_instance ELSE r.v
    /\ UNCHANGED <<reconstructed_field, adapter, module_globals, declared_since_bind, tvars, svars>>

\* obj = Model(field=given) or obj = Model()
Construct ==
    \E given \in InstanceValues \cup {Unset} :
        /\ model_instance = Unset
        /\ StoreStep("__init__", <<given>>, Model_init(model_field, given, module_globals))

\* obj.field = value
Assign ==
    \E value \in InstanceValues :
        /\ model_instance # Unset
        /\ StoreStep("__set__", <<value>>, descriptor_set(model_field, value, module_globals))

\* obj.field = obj.field
Reassign ==
    /\ model_instance # Unset
    /\ StoreStep("reassign", <<model_instance>>,
                 descriptor_set(model_field, model_instance, module_globals))

\* field.to_python(value)
ToPythonField ==
    \E value \in InstanceValues :
        FieldStep("to_python", <<value>>,
                  MsgspecSchemaField_to_python(model_field, value, module_globals))

\* field.from_db_value(value, expression, connection)
FromDbValue ==
    \E value \in DbValues, expression \in {"Col", "KeyTransform"} :
        FieldStep("from_db_value", <<value, Str(expression)>>,
                  from_db_value(model_field, value, expression, module_globals))

\* field.validate(value, obj)
Validate ==
    \E value \in InstanceValues :
        FieldStep("validate", <<value>>, validate(model_field, value, module_globals))

\* field._prepare_raw_value(value), as get_prep_value and value_to_string call it
PrepareRawValue ==
    \E value \in InstanceValues :
        FieldStep("_prepare_raw_value", <<value>>,
                  prepare_raw_value(model_field, value, NoExportKwargs, "absent", module_globals))

\* field.get_default()
GetFieldDefault == FieldStep("get_default", <<>>, get_default(model_field, module_globals))

InstanceNext ==
    \/ Construct
    \/ Assign
    \/ Reassign
    \/ ToPythonField
    \/ FromDbValue
    \/ Validate
    \/ PrepareRawValue
    \/ GetFieldDefault

SpecInstance == InstanceInit /\ [][InstanceNext]_vars

\* ------------------------------------------------------------------------
\* C21
\* ------------------------------------------------------------------------

\* The field's schema resolves in the module as it stands.
C21_Resolves == prepare_schema(model_field.adapter, module_globals).k # "err"

\* What the field's to_python gives for x.
C21_ToPython(x) == MsgspecSchemaField_to_python(model_field, x, module_globals).v

\* What the instance holds after the value x was given to the constructor or
\* assigned: to_python(x) when x is accepted, None when None is given to a
\* field without a default, and what it held before when x is refused.
C21_Given(x) ==
    IF x = NoneValue /\ ~has_default(model_field) THEN
        /\ model_instance' = NoneValue
        /\ outcome'.v = NoneValue
    ELSE IF C21_ToPython(x).k = "err" THEN
        /\ outcome'.v = C21_ToPython(x)
        /\ C21_Resolves => outcome'.v.o = "django.ValidationError"
        /\ model_instance' = model_instance
    ELSE
        /\ model_instance' = C21_ToPython(x)
        /\ outcome'.v = C21_ToPython(x)

\* What the instance holds after it was constructed without a value for the
\* field: None without a default, to_python of the default otherwise.
C21_NotGiven ==
    IF ~has_default(model_field) THEN
        /\ model_instance' = NoneValue
        /\ outcome'.v = NoneValue
    ELSE C21_Resolves =>
        /\ get_default(model_field, module_globals).v.k # "err"
        /\ model_instance' = C21_ToPython(get_default(model_field, module_globals).v)

\* C21: after a construction or an assignment the instance holds to_python of
\* the value when the value conforms to the schema (None for a field without
\* a default that is given None or nothing); a value that cannot be adapted
\* raises ValidationError and the instance holds what it held before; a model
\* whose field has no default is constructed without a value for it.
C21_StoredValue ==
    [][(outcome'.op \in {"__init__", "__set__"}) =>
         IF outcome'.args[1] = Unset THEN C21_NotGiven ELSE C21_Given(outcome'.args[1])
      ]_vars

\* valid_initial.sample_field = 1 raised ValidationError and the instance
\* still holds the struct stored before.
C21_Witness ==
    /\ outcome.op = "__set__"
    /\ outcome.args[1] = PyInt("1")
    /\ outcome.v.k = "err"
    /\ outcome.v.o = "django.ValidationError"
    /\ model_field.schema = Cls("InnerSchema")
    /\ model_instance = Struct("InnerSchema", <<Str(""), List(<<>>), PyInt("1")>>)

\* A model whose field has no default and is not null was constructed
\* without a value.
C21_NoDefaultWitness ==
    /\ outcome.op = "__init__"
    /\ outcome.args[1] = Unset
    /\ ~has_default(model_field)
    /\ model_field.null = PyFalse
    /\ outcome.v = NoneValue
    /\ model_instance = NoneValue

\* ------------------------------------------------------------------------
\* C30
\* ------------------------------------------------------------------------

\* C30: to_python(to_python(x)) = to_python(x) for every x to_python accepts,
\* whatever the schema; and assigning the stored value to the field again
\* raises nothing and leaves the stored value as it is.
C30_Idempotent ==
    [][/\ (outcome'.op = "to_python" /\ outcome'.v.k # "err") =>
            MsgspecSchemaField_to_python(model_field', outcome'.v, module_globals).v = outcome'.v
       /\ outcome'.op = "reassign" =>
            /\ outcome'.v.k # "err"
            /\ model_instance' = model_instance
      ]_vars

\* The same for the schemas that hold no plain str: struct and list schemas.
C30_IdempotentStructured ==
    [][(prepare_schema(model_field.adapter, module_globals) \notin
            {Cls("str"), SubscriptUnion(<<Cls("str"), Cls("NoneType")>>)}) =>
         /\ (outcome'.op = "to_python" /\ outcome'.v.k # "err") =>
              MsgspecSchemaField_to_python(model_field', outcome'.v, module_globals).v = outcome'.v
         /\ (outcome'.op = "reassign" /\ C21_Resolves) =>
              /\ outcome'.v.k # "err"
              /\ model_instance' = model_instance
      ]_vars

\* A struct was stored and assigned to the field again.
C30_StructReassigned ==
    /\ outcome.op = "reassign"
    /\ model_instance = Struct("InnerSchema", <<Str(""), List(<<>>), PyInt("1")>>)

\* ------------------------------------------------------------------------
\* C25
\* ------------------------------------------------------------------------

\* A validation, decode or configuration error.
C25_Error(v) ==
    /\ v.k = "err"
    /\ v.o \in {"ValidationError", "DecodeError", "ImproperlyConfiguredSchema"}

\* What the adapter call an operation of the field starts with gives, for
\* the field as it stood before the step: validate_json of the text for
\* from_db_value, validate_python of the value for validate and get_default.
C25_AdapterCall(o) ==
    IF o.op = "from_db_value" THEN
        validate_json(model_field.adapter, o.args[1].o, NoneValue, module_globals).v
    ELSE IF o.op = "validate" THEN
        validate_python(model_field.adapter, o.args[1], NoneValue, module_globals).v
    ELSE validate_python(model_field.adapter, django_get_default(model_field), NoneValue,
                         module_globals).v

\* The operation o makes its adapter call: from_db_value for a value that is
\* not None read through a plain column, validate, and get_default of a
\* field with a default.
C25_Calls(o) ==
    \/ o.op = "from_db_value" /\ o.args[1] # NoneValue /\ o.args[2] = Str("Col")
    \/ o.op = "validate"
    \/ o.op = "get_default" /\ has_default(model_field)

\* C25: apart from _prepare_raw_value and the JSON attempt of to_python, an
\* operation of the field whose adapter call raises a validation, decode or
\* configuration error raises that error: from_db_value, validate and
\* get_default return nothing in its place.
C25_ErrorsReachCaller ==
    [][(C25_Calls(outcome') /\ C25_Error(C25_AdapterCall(outcome'))) =>
         outcome'.v = C25_AdapterCall(outcome')
      ]_vars

\* The same for validate and get_default alone.
C25_ValidateAndDefaultRaise ==
    [][(/\ outcome'.op \in {"validate", "get_default"}
        /\ C25_Calls(outcome')
        /\ C25_Error(C25_AdapterCall(outcome'))) =>
         outcome'.v = C25_AdapterCall(outcome')
      ]_vars

\* The two suppressions the claim names: _prepare_raw_value dumps the value
\* as it was passed when validate_python raises ValidationError or the
\* configuration error, and to_python validates a text as a Python object
\* when it cannot be decoded.
C25_TwoSuppressions ==
    [][/\ (/\ outcome'.op = "_prepare_raw_value"
           /\ C25_Error(validate_python(model_field.adapter, outcome'.args[1], NoneValue,
                                        module_globals).v)) =>
            outcome'.v = dump_python(model_field.adapter, outcome'.args[1], NoExportKwargs, "absent")
       /\ (/\ outcome'.op = "to_python"
           /\ outcome'.args[1].k = "str"
           /\ C25_Error(validate_json(model_field.adapter, outcome'.args[1].o, NoneValue,
                                      module_globals).v)) =>
            outcome'.v = python_validated(validate_python(model_field.adapter, outcome'.args[1],
                                                          NoneValue, module_globals)).v
      ]_vars

\* from_db_value returned the parsed row although the field has no schema:
\* the configuration error did not reach the caller.
C25_ConfigErrorMasked ==
    /\ outcome.op = "from_db_value"
    /\ outcome.args = <<Str("{\"field\": 2}"), Str("Col")>>
    /\ outcome.v = Dict(<<KV("field", PyInt("2"))>>)
    /\ prepare_schema(model_field.adapter, module_globals).k = "err"

\* ------------------------------------------------------------------------
\* Containers nested in containers
\* ------------------------------------------------------------------------

\* DataclassContainer(Point, {"x": 1, "y": 2})
PointContainer == DataclassContainer("Point", Dict(<<KV("x", PyInt("1")), KV("y", PyInt("2"))>>))

\* Generic containers of one and two levels.
InnerGenericContainers ==
    {GenericContainer("list", <<Cls("int")>>),
     GenericContainer("dict", <<Cls("str"), Cls("int")>>),
     GenericContainer("Literal", <<Str("foo")>>),
     GenericContainer("UnionType", <<Cls("int"), Cls("NoneType")>>),
     GenericContainer("list", <<GenericContainer("list", <<Cls("int")>>)>>)}

\* Containers built by hand that hold containers: in the args of a generic
\* container (as an argument of list, dict, a bitwise union, and as the type
\* or the annotation of Annotated) and in the kwargs of a dataclass
\* container (as a field value and as an item of a list field value).
NestedContainers ==
    {GenericContainer("list", <<i>>) : i \in InnerGenericContainers}
    \cup {GenericContainer("dict", <<Cls("str"), i>>) : i \in InnerGenericContainers}
    \cup {GenericContainer("UnionType", <<i, Cls("NoneType")>>) : i \in InnerGenericContainers}
    \cup {GenericContainer("Annotated", <<i, PointContainer>>) :
            i \in InnerGenericContainers \cup {Cls("int")}}
    \cup {DataclassContainer("Segment", Dict(<<KV("start", s), KV("label", l)>>)) :
            s \in InnerGenericContainers \cup {PointContainer, Dict(<<KV("x", PyInt("1")), KV("y", PyInt("2"))>>)},
            l \in InnerGenericContainers \cup {Str("a")}}
    \cup {DataclassContainer("Path", Dict(<<KV("points", List(<<p>>))>>)) :
            p \in {PointContainer, Dict(<<KV("x", PyInt("1")), KV("y", PyInt("2"))>>)}}

NestedInit ==
    /\ raw_type \in NestedContainers
    /\ wrapped_type = raw_type
    /\ unwrapped_type = Unset
    /\ serialized = SerFail
    /\ evaluated = Unset
    /\ AdapterIdle
    /\ SettingsIdle

\* BaseContainer.unwrap(wrapped_type), as MsgspecSchemaField.__init__ calls it
UnwrapContainer ==
    /\ wrapped_type # Unset
    /\ unwrapped_type = Unset
    /\ unwrapped_type' = BaseContainer_unwrap(wrapped_type)
    /\ UNCHANGED <<raw_type, wrapped_type, serialized, evaluated, avars, fvars, svars>>

\* GenericContainer.wrap(unwrapped_type): the rebuilt value is wrapped again
WrapAgain ==
    /\ unwrapped_type # Unset
    /\ evaluated = Unset
    /\ evaluated' = wrap(unwrapped_type)
    /\ UNCHANGED <<raw_type, wrapped_type, unwrapped_type, serialized, avars, fvars, svars>>

NestedNext == UnwrapContainer \/ WrapAgain

SpecNested == NestedInit /\ [][NestedNext]_vars

\* ------------------------------------------------------------------------
\* C24
\* ------------------------------------------------------------------------

\* C24: the result of unwrap holds no container at any depth, whether the
\* containers were nested in the args of a generic container or in the field
\* values of a dataclass container.
C24_NoContainerLeft ==
    unwrapped_type # Unset => ~HasKind(unwrapped_type, {"gc", "dcc"})

\* The same for the containers nested in args alone: no dataclass container
\* with a container among its field values is involved.
C24_ArgsUnwrapped ==
    (unwrapped_type # Unset /\ raw_type.k = "gc") => ~HasKind(unwrapped_type, {"gc", "dcc"})

\* A generic container three levels deep was unwrapped to list[list[list[int]]].
C24_ArgsWitness ==
    /\ raw_type = GenericContainer("list", <<GenericContainer("list", <<GenericContainer("list", <<Cls("int")>>)>>)>>)
    /\ unwrapped_type = Mk("ga", "list", <<Mk("ga", "list", <<Mk("ga", "list", <<Cls("int")>>)>>)>>)

\* A dataclass container was unwrapped to an instance whose field still
\* holds the container given as its value.
C24_FieldValueKept ==
    /\ raw_type = DataclassContainer("Segment", Dict(<<KV("start", PointContainer), KV("label", Str("a"))>>))
    /\ unwrapped_type = Dataclass("Segment", <<PointContainer, Str("a")>>)

\* ------------------------------------------------------------------------
\* Dispatch in the serializer registry
\* ------------------------------------------------------------------------

\* Members of the unions of the checks: classes of builtins, struct classes
\* and a builtin alias.
UnionMembers ==
    {Cls("int"), Cls("str"), Cls("NoneType"), Cls("InnerSchema"), Cls("OtherSchema"),
     Mk("ga", "list", <<Cls("int")>>)}

\* A | B
BitwiseUnions == {Mk("union", "UnionType", <<x, y>>) : x, y \in UnionMembers} \ {Mk("union", "UnionType", <<x, x>>) : x \in UnionMembers}

\* typing.Union[A, B]
TypingUnions == {Mk("tunion", "Union", <<x, y>>) : x, y \in UnionMembers} \ {Mk("tunion", "Union", <<x, x>>) : x \in UnionMembers}

\* Containers: dataclass containers as DataclassContainer.wrap builds them,
\* and generic containers.
RegistryContainers ==
    {DataclassContainer_wrap(d) : d \in Points \cup Segments}
    \cup {GenericContainer("list", <<Cls("int")>>),
          GenericContainer("UnionType", <<Cls("int"), Cls("NoneType")>>),
          GenericContainer("Union", <<Cls("int"), Cls("str")>>)}

RegistryInit ==
    /\ raw_type \in BitwiseUnions \cup TypingUnions \cup RegistryContainers
    /\ wrapped_type = Unset
    /\ unwrapped_type = Unset
    /\ serialized = SerFail
    /\ evaluated = Unset
    /\ AdapterIdle
    /\ SettingsIdle

\* expression, imports = serializer_factory(raw_type).serialize()
SerializeValue ==
    /\ serialized = SerFail
    /\ serialized' = Serialize(raw_type)
    /\ UNCHANGED <<raw_type, wrapped_type, unwrapped_type, evaluated, avars, fvars, svars>>

RegistryNext == SerializeValue

SpecRegistry == RegistryInit /\ [][RegistryNext]_vars

\* ------------------------------------------------------------------------
\* C26
\* ------------------------------------------------------------------------

\* C26: a union object in either spelling is dispatched to the union
\* strategy, which emits the repr of the value with the typing import and the
\* imports of the arguments; a dataclass container is dispatched to its own
\* strategy and not to the generic container strategy.
C26_Dispatch ==
    /\ (raw_type.k \in {"union", "tunion"} /\ serialized.ok) =>
          /\ SerializerFor(raw_type) = "UnionTypeSerializer"
          /\ serialized.text = Repr(raw_type)
          /\ serialized = UnionTypeSerializer(raw_type)
    /\ (raw_type.k = "dcc" /\ serialized.ok) =>
          /\ SerializerFor(raw_type) = "DataclassContainerSerializer"
          /\ serialized = DataclassContainerSerializer(raw_type)

\* The same without the typing.Union[A, B] spelling.
C26_DispatchBitwise ==
    /\ (raw_type.k = "union" /\ serialized.ok) =>
          /\ SerializerFor(raw_type) = "UnionTypeSerializer"
          /\ serialized.text = Repr(raw_type)
          /\ "typing" \in serialized.imports
          /\ serialized = UnionTypeSerializer(raw_type)
    /\ (raw_type.k = "dcc" /\ serialized.ok) =>
          /\ SerializerFor(raw_type) = "DataclassContainerSerializer"
          /\ serialized = DataclassContainerSerializer(raw_type)

\* typing.Union[A, B] goes to the typing strategy, which emits the generic
\* container of its wrapped form.
C26_TypingUnionWrapped ==
    (raw_type.k = "tunion" /\ serialized.ok) =>
        /\ SerializerFor(raw_type) = "TypingSerializer"
        /\ serialized = BaseContainerSerializer(wrap(raw_type))

\* InnerSchema | None was emitted as its repr, with the imports of typing and
\* of the module of InnerSchema.
C26_BitwiseWitness ==
    /\ raw_type = Mk("union", "UnionType", <<Cls("InnerSchema"), Cls("NoneType")>>)
    /\ serialized = Ser(<<"tests.conftest", ".", "InnerSchema", "|", "None">>, {"typing", "tests.conftest"})

\* typing.Union[int, str] was emitted as GenericContainer(typing.Union, (int, str)).
C26_TypingUnionEmitted ==
    /\ raw_type = Mk("tunion", "Union", <<Cls("int"), Cls("str")>>)
    /\ serialized.ok
    /\ serialized.text # <<"typing", ".", "Union", "[", "int", ",", "str", "]">>
    /\ serialized.text[1] = "django_msgspec_field.compat.django"

\* A dataclass container was emitted as the call of its class with keywords.
C26_DataclassWitness ==
    /\ raw_type = DataclassContainer("Point", Dict(<<KV("x", PyInt("1")), KV("y", PyInt("0"))>>))
    /\ serialized = Ser(<<"tests.conftest", ".", "Point", "(", "x", "=", "1", ",", "y", "=", "0", ")">>,
                        {"tests.conftest"})

\* ------------------------------------------------------------------------
\* Fields declared with the typing spelling of a generic
\* ------------------------------------------------------------------------

\* X of typing.List[X], typing.Sequence[X]; V of typing.Dict[str, V],
\* typing.Mapping[str, V].
SpellingMembers == {Cls("InnerSchema"), Cls("int"), Mk("tga", "list", <<Cls("int")>>)}

ListSpellings == {Mk("tga", o, <<x>>) : o \in {"list", "Sequence"}, x \in SpellingMembers}

DictSpellings == {Mk("tga", o, <<Cls("str"), x>>) : o \in {"dict", "Mapping"}, x \in SpellingMembers}

\* The defaults a field of the schema is declared with: none, the callable
\* list or dict, an empty value, a value with one item.
SpellingDefaults(s) ==
    IF s \in ListSpellings THEN
        {Unset, Cls("list"), List(<<>>)}
        \cup (IF s.a[1] = Cls("InnerSchema")
              THEN {List(<<Struct("InnerSchema", <<Str(""), List(<<>>), PyInt("1")>>)>>)}
              ELSE IF s.a[1] = Cls("int") THEN {List(<<PyInt("1")>>)}
              ELSE {List(<<List(<<PyInt("1")>>)>>)})
    ELSE {Unset, Cls("dict"), Dict(<<>>)}

\* The same type in the builtin / collections.abc spelling, at every depth.
RECURSIVE builtin_spelling(_)
builtin_spelling(v) ==
    IF v.k = "tga" THEN Mk("ga", v.o, MapSeq(builtin_spelling, v.a)) ELSE v

\* old_field: a field with a typing-spelled schema, in a module that has
\* declared SampleSchema.
SpellingInit ==
    /\ model_field \in UNION {{MsgspecSchemaField(s, d, n, Unset, e) :
                                d \in SpellingDefaults(s), n \in {PyTrue, PyFalse},
                                e \in FieldExportKwargs} :
                              s \in ListSpellings \cup DictSpellings}
    /\ reconstructed_field = NoField
    /\ model_instance = Unset
    /\ adapter = Unset
    /\ module_globals = <<KV("SampleSchema", Cls("SampleSchema"))>>
    /\ declared_since_bind = FALSE
    /\ outcome = NoOutcome
    /\ TypesIdle
    /\ SettingsIdle

SpecSpelling == SpellingInit /\ [][FieldNext]_vars

\* ------------------------------------------------------------------------
\* C22
\* ------------------------------------------------------------------------

\* new_field: the field declared as model_field is, with the builtin spelling.
C22_NewField ==
    MsgspecSchemaField(builtin_spelling(model_field.schema), model_field.default, model_field.null,
                       Unset, model_field.export_kwargs)

\* C22: the field reconstructed from the kwargs of deconstruct() or from the
\* evaluated migration text of a typing-spelled field has a schema equal to
\* that of the field declared with the builtin spelling, and
\* its get_default() returns what that field's and the old field's return.
C22_BuiltinSpelling ==
    /\ reconstructed_field # NoField =>
          /\ PyEq(C22_NewField.schema, reconstructed_field.schema)
          /\ reconstructed_field.schema = builtin_spelling(model_field.schema)
    /\ (outcome.op = "get_default" /\ outcome.args = <<Str("reconstructed_field")>>) =>
          /\ outcome.v = get_default(C22_NewField, module_globals).v
          /\ outcome.v = get_default(model_field, module_globals).v

\* typing.Mapping[str, InnerSchema] with default=dict went through the
\* migration text; the field evaluated from it has the schema
\* collections.abc.Mapping[str, InnerSchema] and the default {}.
C22_Witness ==
    /\ model_field.schema = Mk("tga", "Mapping", <<Cls("str"), Cls("InnerSchema")>>)
    /\ model_field.default = Cls("dict")
    /\ evaluated.k = "newfield"
    /\ reconstructed_field.default = Cls("dict")
    /\ reconstructed_field.schema = Mk("ga", "Mapping", <<Cls("str"), Cls("InnerSchema")>>)
    /\ outcome.op = "get_default"
    /\ outcome.args = <<Str("reconstructed_field")>>
    /\ outcome.v = Dict(<<>>)

\* typing.List[typing.List[int]] with the default [[1]] was reconstructed
\* from the kwargs as list[list[int]] with the same default.
C22_KwargsWitness ==
    /\ model_field.schema = Mk("tga", "list", <<Mk("tga", "list", <<Cls("int")>>)>>)
    /\ evaluated = Unset
    /\ reconstructed_field # NoField
    /\ reconstructed_field.schema = Mk("ga", "list", <<Mk("ga", "list", <<Cls("int")>>)>>)
    /\ outcome.op = "get_default"
    /\ outcome.args = <<Str("reconstructed_field")>>
    /\ outcome.v = List(<<List(<<PyInt("1")>>)>>)

====
